----------------------------- MODULE Ks959Device ----------------------------
(***************************************************************************)
(* The Windows device layer, libks959/ks959_device.c: finding the dongle   *)
(* among the USB interfaces, opening it, control transfers on it, closing  *)
(* it.  Any of the system calls may fail, and the dongle may be plugged in *)
(* or pulled between any two of them.                                      *)
(*                                                                         *)
(* The client (external) holds at most one device, uses it only while it   *)
(* is open and passes any setup packet and buffer.  Ks959Clients has the   *)
(* two programs built on the library in its place.                         *)
(***************************************************************************)
EXTENDS Integers, Sequences

CONSTANTS
  MaxInterfaces,  \* bound: USB interfaces on the machine
  U16,            \* uint16_t wraps here: 2^16
  Lengths,        \* bound: setup lengths the client tries
  BufferLens      \* bound: buffer_len it tries; a size_t, so U16 and more too

ASSUME BoundsAssumption ==
  /\ MaxInterfaces \in Nat /\ U16 \in Nat \ {0}
  /\ Lengths \subseteq 0 .. (U16 - 1) /\ BufferLens \subseteq Nat

VARIABLES
  plugged,            \* the dongle is on the bus
  pc,                 \* where the library is; "client" outside it
  interfaces, index,  \* the device information list, and the loop's position
  held,               \* how many of each resource the library holds
  out_dev,            \* the client's ks959_device_t *: "null" or "dev"
  last_os_error,      \* of the device
  GetLastError,       \* of the thread
  result,             \* what the last call returned
  bytes_transferred,  \* the client's
  call                \* history: the last control call

env == <<plugged, call, bytes_transferred>>
search == <<interfaces, index>>
vars == <<plugged, pc, interfaces, index, held, out_dev, last_os_error, GetLastError,
          result, bytes_transferred, call>>

Resources == {"list", "detail", "path", "dev", "handle", "winusb"}

\* An interface is ours or another's; the enumeration may fail at it, its detail
\* may refuse to give its size, give its size and then refuse, or be read in full.
Interface == [ours : BOOLEAN, detail : {"unlisted", "refused", "sized", "read"}]
Lists == UNION {[1 .. n -> Interface] : n \in 0 .. MaxInterfaces}

OpenErrors == {"FILE_NOT_FOUND", "ACCESS_DENIED", "GEN_FAILURE"}
IoErrors == {"GEN_FAILURE", "SEM_TIMEOUT"}

\* ks959_map_open_error; each error stands for its group.
MapOpenError(err) ==
  CASE err = "FILE_NOT_FOUND" -> "NO_DEVICE"
    [] err = "ACCESS_DENIED" -> "OPEN_FAILED"
    [] OTHER -> "IO"

NoCall == [made |-> FALSE, setup_length |-> 0, buffer_len |-> 0]

Init ==
  /\ plugged \in BOOLEAN
  /\ pc = "client" /\ out_dev = "null" /\ result = "none"
  /\ interfaces = <<>> /\ index = 0
  /\ held = [r \in Resources |-> 0]
  /\ last_os_error = "none" /\ GetLastError = "none"
  /\ bytes_transferred = 0 /\ call = NoCall

Plug ==
  /\ plugged' = ~plugged
  /\ UNCHANGED <<pc, search, held, out_dev, last_os_error, GetLastError, result,
                 bytes_transferred, call>>

\* Taking and releasing resources, as one step of the code does.
Take(S) == held' = [r \in Resources |-> held[r] + (IF r \in S THEN 1 ELSE 0)]
Free(S) == held' = [r \in Resources |-> held[r] - (IF r \in S THEN 1 ELSE 0)]

Return(status) == pc' = "client" /\ result' = status /\ interfaces' = <<>> /\ index' = 0

-----------------------------------------------------------------------------
(* ks959_open: the search *)

\* SetupDiGetClassDevsW lists what is present; the dongle's interface is in the
\* list only if it is plugged in.
Open ==
  /\ pc = "client" /\ out_dev = "null"
  /\ call' = NoCall
  /\ \/ Return("IO") /\ UNCHANGED held
     \/ /\ \E list \in Lists :
             /\ plugged \/ \A k \in DOMAIN list : ~list[k].ours
             /\ interfaces' = list
        /\ index' = 1 /\ Take({"list"}) /\ pc' = "search" /\ result' = "none"
  /\ UNCHANGED <<plugged, out_dev, last_os_error, GetLastError, bytes_transferred>>

Following_Same(k) == k
Following(k) == k + 1              \* ++index

\* The detail of this interface cannot be read: on to the next one.
SkipInterface_Break ==
  /\ pc = "search" /\ index \in DOMAIN interfaces
  /\ interfaces[index].detail = "refused"
  /\ Free({"list"}) /\ Return("NO_DEVICE")
  /\ UNCHANGED <<env, out_dev, last_os_error, GetLastError>>

SkipInterface ==
  /\ pc = "search" /\ index \in DOMAIN interfaces
  /\ interfaces[index].detail = "refused"
  /\ index' = Following(index)
  /\ UNCHANGED <<env, pc, interfaces, held, out_dev, last_os_error, GetLastError, result>>

\* Its size is known: malloc the detail, or give up.
AllocDetail ==
  /\ pc = "search" /\ index \in DOMAIN interfaces
  /\ interfaces[index].detail \in {"sized", "read"}
  /\ \/ /\ Take({"detail"}) /\ pc' = "detail"
        /\ UNCHANGED <<search, result>>
     \/ Free({"list"}) /\ Return("INTERNAL")
  /\ UNCHANGED <<env, out_dev, last_os_error, GetLastError>>

\* The detail is read, or not, and the path compared: freed in either case.
ReadDetail ==
  /\ pc = "detail"
  /\ LET it == interfaces[index]
     IN \/ /\ it.detail = "read" /\ it.ours
           /\ \/ /\ held' = [held EXCEPT !["path"] = @ + 1, !["detail"] = @ - 1, !["list"] = @ - 1]
                 /\ pc' = "alloc" /\ UNCHANGED <<search, result>>
              \/ Free({"detail", "list"}) /\ Return("INTERNAL")   \* no memory for the path
        \/ /\ ~(it.detail = "read" /\ it.ours)
           /\ Free({"detail"}) /\ index' = Following(index)
           /\ pc' = "search" /\ UNCHANGED <<interfaces, result>>
  /\ UNCHANGED <<env, out_dev, last_os_error, GetLastError>>

\* SetupDiEnumDeviceInterfaces returns FALSE: past the last interface, or at one
\* it fails to give.  The loop does not tell these apart.
EndOfList ==
  /\ pc = "search"
  /\ index \in DOMAIN interfaces => interfaces[index].detail = "unlisted"
  /\ Free({"list"}) /\ Return("NO_DEVICE")
  /\ UNCHANGED <<env, out_dev, last_os_error, GetLastError>>

-----------------------------------------------------------------------------
(* ks959_open: the device *)

AllocDevice ==
  /\ pc = "alloc"
  /\ \/ /\ Take({"dev"}) /\ last_os_error' = "none" /\ pc' = "create"
        /\ UNCHANGED <<search, result>>
     \/ Free({"path"}) /\ Return("INTERNAL") /\ UNCHANGED last_os_error
  /\ UNCHANGED <<env, out_dev, GetLastError>>

\* CreateFileW; the path is freed whatever it returned.  A failure, which may
\* have any reason whether the dongle is there or not, is written to the device,
\* which is freed, and returned as a status.
CreateFile ==
  /\ pc = "create"
  /\ \/ /\ plugged
        /\ held' = [held EXCEPT !["path"] = @ - 1, !["handle"] = @ + 1]
        /\ pc' = "initialize"
        /\ UNCHANGED <<search, result, last_os_error, GetLastError>>
     \/ \E err \in OpenErrors :
          /\ GetLastError' = err /\ last_os_error' = err
          /\ Free({"path", "dev"}) /\ Return(MapOpenError(err))
  /\ UNCHANGED <<env, out_dev>>

\* What a failed WinUsb_Initialize leaves to release, and what *out_dev is.
Opened_NoHandle == {"dev"}
Opened == {"handle", "dev"}

OutDev(ok) == IF ok THEN "dev" ELSE "null"

InitializeWinUsb ==
  /\ pc = "initialize"
  /\ \/ /\ plugged /\ Take({"winusb"}) /\ Return("OK") /\ out_dev' = OutDev(TRUE)
        /\ UNCHANGED <<last_os_error, GetLastError>>
     \/ \E err \in IoErrors :
          /\ GetLastError' = err /\ last_os_error' = err
          /\ Free(Opened) /\ Return("WINUSB_INIT_FAILED") /\ out_dev' = OutDev(FALSE)
  /\ UNCHANGED env

-----------------------------------------------------------------------------
(* Control transfers, and the other calls *)

\* The setup packet's length is compared with the low 16 bits of buffer_len.
LengthAgrees_Unchecked(length, buffer_len) == TRUE
LengthAgrees(length, buffer_len) == length = buffer_len % U16

\* *bytes_transferred of a call that fails: zeroed on entry.
FailedCount_Kept == bytes_transferred
FailedCount == 0

\* ks959_set_last_error_from_system
SetLastError_Once(err) == IF last_os_error = "none" THEN err ELSE last_os_error
SetLastError(err) == err

\* ks959_ctrl_read and ks959_ctrl_write on a setup packet of the right or the
\* wrong direction and a buffer that may be missing.  WinUsb_ControlTransfer
\* (external) moves up to the setup packet's length.
Ctrl(length, buffer_len, direction_ok, buffer) ==
  LET valid == /\ direction_ok /\ LengthAgrees(length, buffer_len)
               /\ buffer_len > 0 => buffer
  IN /\ pc = "client" /\ out_dev = "dev"
     /\ call' = [made |-> TRUE, setup_length |-> length, buffer_len |-> buffer_len]
     /\ \/ /\ ~valid /\ result' = "INVALID_ARG" /\ bytes_transferred' = FailedCount
           /\ UNCHANGED <<last_os_error, GetLastError>>
        \/ /\ valid /\ plugged /\ result' = "OK"
           /\ bytes_transferred' \in 0 .. length
           /\ UNCHANGED <<last_os_error, GetLastError>>
        \/ /\ valid /\ result' = "IO" /\ bytes_transferred' = FailedCount
           /\ GetLastError' \in IoErrors /\ last_os_error' = SetLastError(GetLastError')
     /\ UNCHANGED <<plugged, pc, search, held, out_dev>>

CtrlTransfer ==
  \E length \in Lengths, buffer_len \in BufferLens, direction_ok, buffer \in BOOLEAN :
    Ctrl(length, buffer_len, direction_ok, buffer)

Idle(outcomes) ==
  /\ pc = "client"
  /\ call' = NoCall /\ result' \in outcomes
  /\ UNCHANGED <<plugged, pc, search, held, out_dev, last_os_error, GetLastError,
                 bytes_transferred>>

\* ks959_get_version needs no device; ks959_get_vid_pid does.
Query == Idle({"OK", "INVALID_ARG"})

\* ks959_last_os_error, and the calls that are not implemented.
OtherCall == Idle({"NOT_SUPPORTED", "INVALID_ARG"} \cup (IF out_dev = "dev" THEN {"OK"} ELSE {}))

-----------------------------------------------------------------------------
(* ks959_close *)

Close ==
  /\ pc = "client" /\ out_dev = "dev"
  /\ out_dev' = "null"            \* the client forgets it
  /\ pc' = "free_winusb" /\ result' = "none" /\ call' = NoCall
  /\ UNCHANGED <<plugged, search, held, last_os_error, GetLastError, bytes_transferred>>

ReleasedFirst_Handle == "handle"
ReleasedFirst == "winusb"          \* WinUsb_Free, then CloseHandle

ReleaseHandles ==
  /\ \/ pc = "free_winusb" /\ Free({ReleasedFirst}) /\ pc' = "close_handle"
     \/ pc = "close_handle" /\ Free({"winusb", "handle"} \ {ReleasedFirst}) /\ pc' = "free_dev"
  /\ UNCHANGED <<env, search, out_dev, last_os_error, GetLastError, result>>

FreeDevice ==
  /\ pc = "free_dev" /\ Free({"dev"}) /\ Return("none")
  /\ UNCHANGED <<env, out_dev, last_os_error, GetLastError>>

-----------------------------------------------------------------------------
Library ==
  \/ SkipInterface \/ AllocDetail \/ ReadDetail \/ EndOfList
  \/ AllocDevice \/ CreateFile \/ InitializeWinUsb
  \/ ReleaseHandles \/ FreeDevice

Next == Plug \/ Open \/ CtrlTransfer \/ Query \/ OtherCall \/ Close \/ Library

Spec == Init /\ [][Next]_vars

\* A call runs on until it returns; nobody has to make one.
FairSpec == Spec /\ WF_vars(Library)

-----------------------------------------------------------------------------
(* Properties *)

Statuses == {"none", "OK", "INVALID_ARG", "NO_DEVICE", "OPEN_FAILED",
             "WINUSB_INIT_FAILED", "IO", "NOT_SUPPORTED", "INTERNAL"}
Errors == OpenErrors \cup IoErrors \cup {"none"}

\* Nothing is held twice and nothing is released that is not held.
TypeOK ==
  /\ plugged \in BOOLEAN /\ out_dev \in {"null", "dev"}
  /\ pc \in {"client", "search", "detail", "alloc", "create", "initialize",
             "free_winusb", "close_handle", "free_dev"}
  /\ index \in 0 .. (Len(interfaces) + 1) /\ Len(interfaces) <= MaxInterfaces
  /\ \A k \in DOMAIN interfaces : interfaces[k] \in Interface
  /\ held \in [Resources -> {0, 1}]
  /\ last_os_error \in Errors /\ GetLastError \in Errors /\ result \in Statuses
  /\ bytes_transferred \in 0 .. U16
  /\ call \in [made : BOOLEAN, setup_length : Lengths \cup {0}, buffer_len : BufferLens \cup {0}]

\* Whatever failed, outside the library exactly the resources of the open device
\* are held: no failing path of ks959_open leaks, and ks959_close releases all.
NothingLeaks ==
  pc = "client" =>
    \A r \in Resources :
      held[r] = IF out_dev = "dev" /\ r \in {"dev", "handle", "winusb"} THEN 1 ELSE 0

\* The WinUSB handle never outlives the file handle it was made from, nor that
\* one the structure that names it; a detail never outlives its list.
ReleasedInOrder ==
  /\ held["winusb"] <= held["handle"] /\ held["handle"] <= held["dev"]
  /\ held["detail"] <= held["list"]

\* ks959_open says NO_DEVICE only when CreateFileW said that there is no such
\* file, or when no interface of the dongle could be read from the list: none at
\* all, or none before the place where the enumeration itself failed.
NoDeviceIsTrue ==
  [][(pc # "client" /\ result' = "NO_DEVICE") =>
       \/ pc = "create" /\ GetLastError' = "FILE_NOT_FOUND"
       \/ /\ pc = "search"
          /\ \A k \in DOMAIN interfaces :
               interfaces[k].ours /\ interfaces[k].detail = "read" =>
                 \E j \in 1 .. (k - 1) : interfaces[j].detail = "unlisted"]_vars

\* The client gets a device from ks959_open exactly when it is told OK.
DeviceIffOk ==
  [][(pc \in {"search", "detail", "alloc", "create", "initialize"} /\ pc' = "client") =>
       (out_dev' = "dev" <=> result' = "OK")]_vars

\* A transfer that did not succeed reports no bytes, and one that did moved no
\* more than the client's buffer holds, which may be nothing.
CountIsTrue ==
  call.made =>
    /\ result # "OK" => bytes_transferred = 0
    /\ bytes_transferred <= call.buffer_len

\* When a transfer failed, also one without data, ks959_last_os_error gives the
\* system's reason for that failure and for no earlier one.
OsErrorIsTheCalls ==
  call.made /\ result = "IO" => last_os_error = GetLastError

\* What is held at each point of the library's calls.
HeldHere ==
  CASE pc = "search" -> {"list"}
    [] pc = "detail" -> {"list", "detail"}
    [] pc = "alloc" -> {"path"}
    [] pc = "create" -> {"path", "dev"}
    [] pc = "initialize" -> {"handle", "dev"}
    [] pc = "free_winusb" -> {"winusb", "handle", "dev"}
    [] pc = "close_handle" -> {"handle", "dev"}
    [] pc = "free_dev" -> {"dev"}
    [] pc = "client" -> IF out_dev = "dev" THEN {"winusb", "handle", "dev"} ELSE {}

Holding(S) == [r \in Resources |-> IF r \in S THEN 1 ELSE 0]

\* Inside the library the client has no device and no result; the loop is at an
\* interface.
InPlace ==
  /\ pc # "client" => out_dev = "null" /\ call = NoCall /\ result = "none"
  /\ interfaces \in Lists
  /\ pc = "detail" => index \in DOMAIN interfaces

\* The search passed over no interface it was looking for.
Passed ==
  /\ pc \in {"search", "detail"} => index >= 1
  /\ \A k \in DOMAIN interfaces :
       k < index => ~(interfaces[k].ours /\ interfaces[k].detail = "read")

\* The inductive invariant of Ks959Proofs.
IInv == TypeOK /\ InPlace /\ Passed /\ held = Holding(HeldHere) /\ CountIsTrue /\ OsErrorIsTheCalls

\* Every call returns: the search passes over what it cannot read.
CallsReturn == pc # "client" ~> pc = "client"
=============================================================================
