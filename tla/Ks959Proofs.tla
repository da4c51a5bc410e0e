----------------------------- MODULE Ks959Proofs -----------------------------
(***************************************************************************)
(* Theorems about Ks959Device, for any client, any number of USB           *)
(* interfaces, any width of the setup length and any buffers; and about    *)
(* Ks959Clients: every step of the two programs built on the library is    *)
(* one of Ks959Device, or leaves the library alone, so what is shown of    *)
(* the library under any client holds under them, and the one request      *)
(* ks959-lib-probe makes before it looks whether it can is always refused. *)
(***************************************************************************)
EXTENDS Ks959Clients, TLAPS

(***************************************************************************)
(* Resources taken.                                                        *)
(***************************************************************************)

\* Taking what is not held.
LEMMA TakeHolding ==
  ASSUME NEW S, NEW H, H \cap S = {}, held = Holding(H), Take(S)
  PROVE  held' = Holding(H \cup S)
  BY DEF Take, Holding

LEMMA HoldingType ==
  ASSUME NEW H
  PROVE  Holding(H) \in [Resources -> {0, 1}]
  BY DEF Holding

(***************************************************************************)
(* The device information list.                                            *)
(***************************************************************************)

\* A list is a sequence of at most MaxInterfaces interfaces.
LEMMA ListType ==
  ASSUME NEW list \in Lists
  PROVE  /\ list \in Seq(Interface) /\ DOMAIN list = 1 .. Len(list)
         /\ Len(list) \in 0 .. MaxInterfaces
         /\ \A k \in DOMAIN list : list[k] \in Interface
<1>1. PICK n \in 0 .. MaxInterfaces : list \in [1 .. n -> Interface]
  BY DEF Lists
<1>2. n \in Nat
  BY <1>1, BoundsAssumption
<1> QED
  BY <1>1, <1>2

LEMMA EmptyList == <<>> \in Lists
<1>1. 0 \in 0 .. MaxInterfaces
  BY BoundsAssumption
<1>2. <<>> \in [1 .. 0 -> Interface]
  OBVIOUS
<1> QED
  BY <1>1, <1>2 DEF Lists

(***************************************************************************)
(* The inductive invariant.                                                *)
(***************************************************************************)

Calls == [made : BOOLEAN, setup_length : Lengths \cup {0}, buffer_len : BufferLens \cup {0}]

LEMMA NoCallType == NoCall \in Calls
  BY DEF NoCall, Calls

LEMMA InitIInv == Init => IInv
<1> SUFFICES ASSUME Init PROVE IInv
  OBVIOUS
<1>1. held = Holding(HeldHere)
  BY DEF Init, Holding, HeldHere
<1>2. TypeOK
  <2>1. held \in [Resources -> {0, 1}]
    BY <1>1, HoldingType
  <2>2. interfaces = <<>> /\ index = 0 /\ 0 \in 0 .. MaxInterfaces
    BY BoundsAssumption DEF Init
  <2>3. Len(interfaces) = 0 /\ DOMAIN interfaces = {}
    BY <2>2
  <2>4. call \in Calls
    BY NoCallType DEF Init
  <2> QED
    BY <2>1, <2>2, <2>3, <2>4, BoundsAssumption
       DEF Init, TypeOK, Errors, Statuses, Calls
<1>3. InPlace
  BY EmptyList DEF Init, InPlace
<1>4. CountIsTrue /\ OsErrorIsTheCalls
  BY DEF Init, NoCall, CountIsTrue, OsErrorIsTheCalls
<1>5. Passed
  <2>1. DOMAIN interfaces = {}
    BY DEF Init
  <2> QED
    BY <2>1 DEF Init, Passed
<1> QED
  BY <1>1, <1>2, <1>3, <1>4, <1>5 DEF IInv

\* What is held follows the place in the code, step by step.
LEMMA StepHeld ==
  ASSUME IInv, [Next]_vars
  PROVE  held' = Holding(HeldHere')
<1>1. held = Holding(HeldHere) /\ (pc # "client" => out_dev = "null")
  BY DEF IInv, InPlace
<1>2. CASE Plug \/ CtrlTransfer \/ Query \/ OtherCall \/ UNCHANGED vars
  BY <1>1, <1>2 DEF Plug, CtrlTransfer, Ctrl, Query, OtherCall, Idle, vars, HeldHere
<1>3. CASE Open
  <2>1. pc = "client" /\ out_dev = "null" /\ out_dev' = "null" /\ HeldHere = {}
    BY <1>3 DEF Open, HeldHere
  <2>2. CASE pc' = "client"
    BY <1>1, <1>3, <2>1, <2>2 DEF Open, HeldHere
  <2>3. CASE pc' # "client"
    <3>1. Take({"list"}) /\ pc' = "search"
      BY <1>3, <2>3 DEF Open, Return
    <3>2. held' = Holding({} \cup {"list"})
      BY <1>1, <2>1, <3>1, TakeHolding
    <3> QED
      BY <3>1, <3>2 DEF HeldHere
  <2> QED
    BY <2>2, <2>3
<1>4. CASE Library \/ Close
  <2>2. CASE SkipInterface
    BY <1>1, <2>2 DEF SkipInterface, HeldHere
  <2>3. CASE AllocDetail
    BY <1>1, <2>3 DEF AllocDetail, HeldHere, Take, Free, Return, Holding
  <2>4. CASE ReadDetail
    BY <1>1, <2>4 DEF ReadDetail, HeldHere, Free, Return, Holding, Resources
  <2>5. CASE EndOfList
    BY <1>1, <2>5 DEF EndOfList, HeldHere, Free, Return, Holding
  <2>6. CASE AllocDevice
    BY <1>1, <2>6 DEF AllocDevice, HeldHere, Take, Free, Return, Holding
  <2>7. CASE CreateFile
    BY <1>1, <2>7 DEF CreateFile, HeldHere, Free, Return, Holding, Resources
  <2>8. CASE InitializeWinUsb
    BY <1>1, <2>8 DEF InitializeWinUsb, HeldHere, Take, Free, Return, Holding, Opened, OutDev
  <2>9. CASE ReleaseHandles
    BY <1>1, <2>9 DEF ReleaseHandles, HeldHere, Free, Holding, ReleasedFirst
  <2>10. CASE FreeDevice
    BY <1>1, <2>10 DEF FreeDevice, HeldHere, Free, Return, Holding
  <2>11. CASE Close
    BY <1>1, <2>11 DEF Close, HeldHere
  <2> QED
    BY <1>4, <2>2, <2>3, <2>4, <2>5, <2>6, <2>7, <2>8, <2>9, <2>10, <2>11 DEF Library
<1> QED
  BY <1>2, <1>3, <1>4 DEF Next

\* A failed call's count is 0; a good one's is at most the setup length, which
\* is at most buffer_len.
LEMMA CutIsLess ==
  ASSUME NEW n \in Nat
  PROVE  n % U16 \in 0 .. (U16 - 1) /\ n % U16 <= n
<1>1. U16 \in Nat /\ U16 > 0
  BY BoundsAssumption
<1>2. /\ n \div U16 \in Int /\ n % U16 \in 0 .. (U16 - 1)
      /\ n = U16 * (n \div U16) + (n % U16)
  BY <1>1
<1>3. n \div U16 >= 0
  <2> DEFINE q == n \div U16
  <2> SUFFICES ASSUME q < 0 PROVE FALSE
    BY <1>2
  <2>1. U16 * q <= U16 * (-1)
    BY <1>1, <1>2
  <2> QED
    BY <1>1, <1>2, <2>1
<1> DEFINE whole == U16 * (n \div U16)
           rest == n % U16
<1>4. whole \in Int /\ whole >= 0
  BY <1>1, <1>2, <1>3
<1>5. rest \in 0 .. (U16 - 1) /\ n = whole + rest
  BY <1>2
<1> HIDE DEF whole, rest
<1>6. rest <= n
  BY <1>1, <1>4, <1>5
<1> QED
  BY <1>5, <1>6 DEF rest

\* What a control call leaves behind.
LEMMA CtrlOutcome ==
  ASSUME IInv, CtrlTransfer
  PROVE  /\ call' \in Calls
         /\ bytes_transferred' \in 0 .. U16
         /\ last_os_error' \in Errors /\ GetLastError' \in Errors
         /\ result' \in {"OK", "IO", "INVALID_ARG"}
         /\ CountIsTrue' /\ OsErrorIsTheCalls'
<1>1. PICK length \in Lengths, buffer_len \in BufferLens, direction_ok \in BOOLEAN, buffer \in BOOLEAN :
        Ctrl(length, buffer_len, direction_ok, buffer)
  BY Zenon DEF CtrlTransfer
<1>2. /\ length \in 0 .. (U16 - 1) /\ buffer_len \in Nat /\ U16 \in Nat
      /\ buffer_len % U16 <= buffer_len
  BY BoundsAssumption, CutIsLess
<1>3. call' = [made |-> TRUE, setup_length |-> length, buffer_len |-> buffer_len]
  BY <1>1 DEF Ctrl
<1>4. \/ result' = "OK" /\ bytes_transferred' \in 0 .. length /\ length <= buffer_len
      \/ result' \in {"INVALID_ARG", "IO"} /\ bytes_transferred' = 0
  BY <1>1, <1>2 DEF Ctrl, LengthAgrees, FailedCount
<1>5. result' = "IO" => last_os_error' = GetLastError'
  BY <1>1 DEF Ctrl, SetLastError
<1>6. last_os_error' \in Errors /\ GetLastError' \in Errors
  <2>1. last_os_error \in Errors /\ GetLastError \in Errors
    BY DEF IInv, TypeOK
  <2>2. IoErrors \subseteq Errors
    BY DEF Errors
  <2> QED
    BY <1>1, <2>1, <2>2 DEF Ctrl, SetLastError
<1>7. call' \in Calls /\ call'.buffer_len = buffer_len
  BY <1>3 DEF Calls
<1> QED
  BY <1>2, <1>4, <1>5, <1>6, <1>7 DEF CountIsTrue, OsErrorIsTheCalls

LEMMA StepReports ==
  ASSUME IInv, [Next]_vars
  PROVE  CountIsTrue' /\ OsErrorIsTheCalls'
<1>1. CountIsTrue /\ OsErrorIsTheCalls /\ (pc # "client" => call = NoCall)
  BY DEF IInv, InPlace
<1>2. CASE CtrlTransfer
  BY <1>2, CtrlOutcome
<1>3. CASE Plug \/ UNCHANGED vars
  BY <1>1, <1>3 DEF Plug, vars, CountIsTrue, OsErrorIsTheCalls
<1>4. CASE Open \/ Query \/ OtherCall \/ Close
  BY <1>4 DEF Open, Query, OtherCall, Idle, Close, NoCall, CountIsTrue, OsErrorIsTheCalls
<1>5. CASE Library
  <2>1. pc # "client" /\ call' = call
    BY <1>5 DEF Library, SkipInterface, AllocDetail, ReadDetail, EndOfList, AllocDevice,
                CreateFile, InitializeWinUsb, ReleaseHandles, FreeDevice, env
  <2> QED
    BY <1>1, <2>1 DEF NoCall, CountIsTrue, OsErrorIsTheCalls
<1> QED
  BY <1>2, <1>3, <1>4, <1>5 DEF Next

\* Types, and the place in the loop.
LEMMA StepTypeOK ==
  ASSUME IInv, [Next]_vars
  PROVE  TypeOK' /\ InPlace'
<1> USE BoundsAssumption
<1>1. held' \in [Resources -> {0, 1}]
  BY StepHeld, HoldingType
<1>2. TypeOK /\ InPlace
  BY DEF IInv
<1>3. /\ interfaces \in Lists /\ DOMAIN interfaces = 1 .. Len(interfaces)
      /\ Len(interfaces) \in 0 .. MaxInterfaces
  BY <1>2, ListType DEF InPlace
<1>4. NoCall \in Calls /\ <<>> \in Lists /\ Len(<<>>) = 0 /\ DOMAIN <<>> = {}
  BY NoCallType, EmptyList
<1>5. CASE Plug \/ UNCHANGED vars
  BY <1>1, <1>2, <1>5 DEF Plug, search, vars, TypeOK, InPlace
<1>6. CASE CtrlTransfer
  BY <1>1, <1>2, <1>6, CtrlOutcome DEF CtrlTransfer, Ctrl, search, TypeOK, InPlace, Statuses, Calls
<1>7. CASE Query \/ OtherCall
  BY <1>1, <1>2, <1>4, <1>7 DEF Query, OtherCall, Idle, search, TypeOK, InPlace, Statuses, Calls
<1>8. CASE Open
  <2>1. PICK list \in Lists :
          \/ interfaces' = <<>> /\ index' = 0 /\ pc' = "client" /\ result' = "IO"
          \/ interfaces' = list /\ index' = 1 /\ pc' = "search" /\ result' = "none"
    BY <1>4, <1>8 DEF Open, Return
  <2>2. /\ interfaces' \in Lists /\ Len(interfaces') \in 0 .. MaxInterfaces
        /\ \A k \in DOMAIN interfaces' : interfaces'[k] \in Interface
        /\ index' \in 0 .. (Len(interfaces') + 1)
    BY <1>4, <2>1, ListType
  <2> QED
    BY <1>1, <1>2, <1>4, <1>8, <2>1, <2>2 DEF Open, TypeOK, InPlace, Statuses, Calls
<1>9. CASE Close
  BY <1>1, <1>2, <1>4, <1>9 DEF Close, search, TypeOK, InPlace, Statuses, Calls
<1>10. CASE Library
  <2>1. pc # "client" /\ out_dev = "null" /\ result = "none" /\ call = NoCall /\ call' = call
    BY <1>2, <1>10 DEF Library, SkipInterface, AllocDetail, ReadDetail, EndOfList, AllocDevice,
                       CreateFile, InitializeWinUsb, ReleaseHandles, FreeDevice, env, InPlace
  <2>2. /\ interfaces' \in Lists
        /\ \/ interfaces' = interfaces /\ index' = index
           \/ interfaces' = interfaces /\ index' = index + 1 /\ index \in DOMAIN interfaces
              /\ pc' = "search"
           \/ interfaces' = <<>> /\ index' = 0 /\ pc' = "client"
    BY <1>2, <1>4, <1>10
       DEF Library, SkipInterface, AllocDetail, ReadDetail, EndOfList, AllocDevice, CreateFile,
           InitializeWinUsb, ReleaseHandles, FreeDevice, Return, Following, search, InPlace
  <2>3. /\ Len(interfaces') \in 0 .. MaxInterfaces
        /\ \A k \in DOMAIN interfaces' : interfaces'[k] \in Interface
        /\ index' \in 0 .. (Len(interfaces') + 1)
    BY <1>2, <1>3, <1>4, <2>2, ListType DEF TypeOK
  <2>4. /\ plugged' = plugged /\ bytes_transferred' = bytes_transferred
        /\ pc' \in {"client", "search", "detail", "alloc", "create", "initialize",
                    "close_handle", "free_dev"}
        /\ out_dev' \in {"null", "dev"} /\ (pc' # "client" => out_dev' = "null" /\ result' = "none")
        /\ pc' = "detail" => index' \in DOMAIN interfaces'
    BY <1>2, <1>10, <2>1
       DEF Library, SkipInterface, AllocDetail, ReadDetail, EndOfList, AllocDevice, CreateFile,
           InitializeWinUsb, ReleaseHandles, FreeDevice, Return, OutDev, env, search, TypeOK
  <2>5. /\ last_os_error' \in Errors /\ GetLastError' \in Errors
        /\ result' \in Statuses
    BY <1>2, <1>10
       DEF Library, SkipInterface, AllocDetail, ReadDetail, EndOfList, AllocDevice, CreateFile,
           InitializeWinUsb, ReleaseHandles, FreeDevice, Return, MapOpenError, Errors, Statuses,
           TypeOK
  <2> QED
    BY <1>1, <1>2, <2>1, <2>2, <2>3, <2>4, <2>5 DEF TypeOK, InPlace
<1> QED
  BY <1>5, <1>6, <1>7, <1>8, <1>9, <1>10 DEF Next

\* The loop moves on from an interface only when it is not the one looked for.
LEMMA StepPassed ==
  ASSUME IInv, [Next]_vars
  PROVE  Passed'
<1>1. Passed /\ TypeOK /\ InPlace
  BY DEF IInv
<1>2. DOMAIN <<>> = {}
  OBVIOUS
<1>3. CASE Plug \/ CtrlTransfer \/ Query \/ OtherCall \/ Close \/ UNCHANGED vars
  BY <1>1, <1>3 DEF Plug, CtrlTransfer, Ctrl, Query, OtherCall, Idle, Close, search, vars, Passed
<1>4. CASE Open
  <2>1. PICK list \in Lists :
          \/ interfaces' = <<>> /\ pc' = "client"
          \/ interfaces' = list /\ index' = 1
    BY <1>4, EmptyList DEF Open, Return
  <2>2. DOMAIN list \subseteq Nat \ {0}
    BY ListType
  <2> QED
    BY <1>2, <2>1, <2>2 DEF Passed
<1>5. CASE Library
  <2>1. \/ interfaces' = <<>> /\ pc' = "client"
        \/ interfaces' = interfaces /\ index' = index
             /\ (pc' \in {"search", "detail"} => pc \in {"search", "detail"})
        \/ /\ interfaces' = interfaces /\ index' = index + 1
           /\ pc \in {"search", "detail"}
           /\ ~(interfaces[index].ours /\ interfaces[index].detail = "read")
    BY <1>5 DEF Library, SkipInterface, AllocDetail, ReadDetail, EndOfList, AllocDevice,
                CreateFile, InitializeWinUsb, ReleaseHandles, FreeDevice, Return, Following, search
  <2>2. DOMAIN interfaces \subseteq Nat /\ index \in Nat
    BY <1>1, ListType DEF InPlace, TypeOK
  <2>3. CASE interfaces' = <<>> /\ pc' = "client"
    BY <1>2, <2>3 DEF Passed
  <2>4. CASE interfaces' = interfaces /\ index' = index
               /\ (pc' \in {"search", "detail"} => pc \in {"search", "detail"})
    BY <1>1, <2>4 DEF Passed
  <2>5. CASE /\ interfaces' = interfaces /\ index' = index + 1
             /\ pc \in {"search", "detail"}
             /\ ~(interfaces[index].ours /\ interfaces[index].detail = "read")
    <3>1. \A k \in DOMAIN interfaces : k < index + 1 => k < index \/ k = index
      BY <2>2
    <3>2. index + 1 >= 1
      BY <2>2
    <3> QED
      BY <1>1, <2>5, <3>1, <3>2 DEF Passed
  <2> QED
    BY <2>1, <2>3, <2>4, <2>5
<1> QED
  BY <1>3, <1>4, <1>5 DEF Next

\* At every point of every call the library holds exactly what HeldHere says.
THEOREM InductiveInvariant == Spec => []IInv
<1>1. IInv /\ [Next]_vars => IInv'
  BY StepHeld, StepReports, StepTypeOK, StepPassed DEF IInv
<1> QED
  BY <1>1, InitIInv, PTL DEF Spec

\* Every reachable state is well typed: in particular no resource is held twice
\* and none is released that is not held.
THEOREM TypeCorrect == Spec => []TypeOK
  BY InductiveInvariant, PTL DEF IInv

\* Outside the library exactly the open device's resources are held, whichever
\* calls of ks959_open failed.
THEOREM NoLeak == Spec => []NothingLeaks
<1>1. IInv => NothingLeaks
  BY DEF IInv, NothingLeaks, Holding, HeldHere
<1> QED
  BY <1>1, InductiveInvariant, PTL

\* Nothing is released before what was made from it.
THEOREM OrderOfRelease == Spec => []ReleasedInOrder
<1>1. IInv => ReleasedInOrder
  <2> SUFFICES ASSUME IInv PROVE ReleasedInOrder
    OBVIOUS
  <2>1. held = Holding(HeldHere)
    BY DEF IInv
  <2>2. \A r \in Resources : held[r] = IF r \in HeldHere THEN 1 ELSE 0
    BY <2>1 DEF Holding
  <2>3. pc \in {"client", "search", "detail", "alloc", "create", "initialize",
                "free_winusb", "close_handle", "free_dev"}
    BY DEF IInv, TypeOK
  <2> QED
    BY <2>2, <2>3 DEF HeldHere, Resources, ReleasedInOrder
<1> QED
  BY <1>1, InductiveInvariant, PTL

\* The count given back is 0 for a call that failed and never more than the
\* client's buffer, although buffer_len is cut to 16 bits before it is checked.
THEOREM CountsTrue == Spec => []CountIsTrue
  BY InductiveInvariant, PTL DEF IInv

\* After a transfer that failed, ks959_last_os_error tells of that failure.
THEOREM ErrorsTrue == Spec => []OsErrorIsTheCalls
  BY InductiveInvariant, PTL DEF IInv

\* ks959_open hands out a device exactly when it returns OK.
THEOREM DeviceExactly == Spec => DeviceIffOk
<1> DEFINE Told == (pc \in {"search", "detail", "alloc", "create", "initialize"}
                      /\ pc' = "client") => (out_dev' = "dev" <=> result' = "OK")
<1>1. IInv /\ [Next]_vars => [Told]_vars
  <2> SUFFICES ASSUME IInv, Next, pc \in {"search", "detail", "alloc", "create", "initialize"},
                      pc' = "client"
               PROVE  out_dev' = "dev" <=> result' = "OK"
    OBVIOUS
  <2>1. out_dev = "null"
    BY DEF IInv, InPlace
  <2> QED
    BY <2>1 DEF Next, Plug, Open, CtrlTransfer, Ctrl, Query, OtherCall, Idle, Close, Library,
        SkipInterface, AllocDetail, ReadDetail, EndOfList, AllocDevice, CreateFile,
        InitializeWinUsb, ReleaseHandles, FreeDevice, Return, MapOpenError, OutDev
<1> QED
  BY <1>1, InductiveInvariant, PTL DEF Spec, DeviceIffOk

\* ks959_open reports no device only when the system said of the one it found
\* that it is not there, or when it met none it could read before the list, or
\* the enumeration, ended.
THEOREM NoDeviceTrue == Spec => NoDeviceIsTrue
<1> DEFINE Gone == (pc # "client" /\ result' = "NO_DEVICE") =>
                     \/ pc = "create" /\ GetLastError' = "FILE_NOT_FOUND"
                     \/ /\ pc = "search"
                        /\ \A k \in DOMAIN interfaces :
                             interfaces[k].ours /\ interfaces[k].detail = "read" =>
                               \E j \in 1 .. (k - 1) : interfaces[j].detail = "unlisted"
<1>1. IInv /\ [Next]_vars => [Gone]_vars
  <2> SUFFICES ASSUME IInv, Next, pc # "client", result' = "NO_DEVICE",
                      ~(pc = "create" /\ GetLastError' = "FILE_NOT_FOUND")
               PROVE  /\ pc = "search"
                      /\ \A k \in DOMAIN interfaces :
                           interfaces[k].ours /\ interfaces[k].detail = "read" =>
                             \E j \in 1 .. (k - 1) : interfaces[j].detail = "unlisted"
    OBVIOUS
  <2>1. result = "none"
    BY DEF IInv, InPlace
  <2>2. CASE Library
    <3>1. EndOfList
      BY <2>1, <2>2 DEF Library, SkipInterface, AllocDetail, ReadDetail, AllocDevice,
            CreateFile, InitializeWinUsb, ReleaseHandles, FreeDevice, Return, MapOpenError, OpenErrors
    <3>2. /\ pc = "search" /\ index >= 1 /\ index \in Nat
          /\ index \in DOMAIN interfaces => interfaces[index].detail = "unlisted"
      BY <3>1 DEF EndOfList, IInv, Passed, TypeOK
    <3>3. DOMAIN interfaces = 1 .. Len(interfaces) /\ Len(interfaces) \in Nat
      BY ListType, BoundsAssumption DEF IInv, InPlace
    <3>4. SUFFICES ASSUME NEW k \in DOMAIN interfaces,
                          interfaces[k].ours, interfaces[k].detail = "read"
                   PROVE  \E j \in 1 .. (k - 1) : interfaces[j].detail = "unlisted"
      BY <3>2
    <3>5. ~(k < index) /\ k # index
      BY <3>2, <3>4 DEF IInv, Passed
    <3>6. index \in 1 .. (k - 1) /\ index \in DOMAIN interfaces
      BY <3>2, <3>3, <3>5
    <3> QED
      BY <3>2, <3>6
  <2>3. CASE ~Library
    BY <2>1, <2>3 DEF Next, Plug, Open, CtrlTransfer, Ctrl, Query, OtherCall, Idle, Close
  <2> QED
    BY <2>2, <2>3
<1> QED
  BY <1>1, InductiveInvariant, PTL DEF Spec, NoDeviceIsTrue

(***************************************************************************)
(* The programs built on the library.                                      *)
(***************************************************************************)

\* Where the program is tells what the library is at, and what it returned.
Refused == result = "INVALID_ARG" /\ bytes_transferred = 0

ClientInv ==
  /\ args.asks \in Transfers => args.length \in Lengths
  /\ tool = "any" => at = "version"
  /\ at \in {"vid_pid", "main", "check", "os_error", "close"} => pc = "client"
  /\ at \in {"version", "open", "opening", "vid_pid", "main", "check"} => status = 0
  /\ at = "check" => tool = "lib-probe"
  /\ at = "os_error" => status # 6 /\ (tool # "lib-probe" => status = 0)
  /\ at = "check" /\ args.asks = "write" /\ args.length # 0 => Refused
  /\ RefusedSendsNothing

\* A length is asked for of the library as a client asks for it.
LEMMA ClientCalls ==
  ASSUME ClientInv, [ClientNext]_allvars
  PROVE  [Next]_vars
<1> USE ClientsAssumption
<1>1. CASE UNCHANGED allvars
  BY <1>1 DEF allvars
<1>2. CASE PlugStep \/ LibraryStep \/ AnyClient
  BY <1>2 DEF PlugStep, LibraryStep, AnyClient, Next
<1>3. CASE Program
  <2>1. CASE Version \/ OpenDevice \/ Opening \/ VidPid \/ CloseDevice \/ Exit
    BY <2>1 DEF Version, OpenDevice, Opening, VidPid, CloseDevice, Exit, Makes, Next
  <2>2. CASE ArgumentsRefused \/ TooLong \/ CheckTransfer \/ LastOsError \/ MatrixDone
    BY <2>2 DEF ArgumentsRefused, TooLong, CheckTransfer, LastOsError, MatrixDone, Quit, Makes, Next
  <2>3. CASE ProbeTransfer
    <3>1. args.length \in Lengths
      BY <2>3 DEF ProbeTransfer, ClientInv
    <3> QED
      BY <2>3, <3>1 DEF ProbeTransfer, CtrlTransfer, Next
  <2>4. CASE MatrixTransfer
    BY <2>4 DEF MatrixTransfer, CtrlTransfer, Next
  <2> QED
    BY <1>3, <2>1, <2>2, <2>3, <2>4 DEF Program
<1> QED
  BY <1>1, <1>2, <1>3 DEF ClientNext

LEMMA InitClientInv == ClientInit => ClientInv
  BY DEF ClientInit, Init, Arguments, Transfers, ClientInv, RefusedSendsNothing

\* A setup packet that announces bytes under a buffer of none is refused.
LEMMA EmptyBufferRefused ==
  ASSUME NEW length \in Lengths, length # 0, NEW buffer, Ctrl(length, 0, TRUE, buffer)
  PROVE  Refused'
<1>1. 0 % U16 = 0
  BY CutIsLess
<1>2. ~LengthAgrees(length, 0)
  BY <1>1 DEF LengthAgrees
<1> QED
  BY <1>2 DEF Ctrl, FailedCount, Refused

LEMMA StepClientInv ==
  ASSUME ClientInv, [ClientNext]_allvars
  PROVE  ClientInv'
<1>1. CASE UNCHANGED allvars
  BY <1>1 DEF allvars, client, vars, ClientInv, RefusedSendsNothing, Refused
<1>2. CASE PlugStep
  BY <1>2 DEF PlugStep, Plug, client, ClientInv, RefusedSendsNothing, Refused
<1>3. CASE LibraryStep
  <2>1. pc # "client"
    BY <1>3 DEF LibraryStep, Library, SkipInterface, AllocDetail, ReadDetail, EndOfList,
                AllocDevice, CreateFile, InitializeWinUsb, ReleaseHandles, FreeDevice
  <2> QED
    BY <1>3, <2>1 DEF LibraryStep, client, ClientInv, RefusedSendsNothing
<1>4. CASE AnyClient
  BY <1>4 DEF AnyClient, client, ClientInv, RefusedSendsNothing
<1>5. CASE Program
  <2>1. CASE Version \/ VidPid
    BY <1>5, <2>1 DEF Version, VidPid, Makes, Query, Idle, client, ClientInv, RefusedSendsNothing, Refused, Program
  <2>2. CASE OpenDevice \/ CloseDevice \/ Exit
    BY <1>5, <2>2 DEF OpenDevice, CloseDevice, Exit, Makes, client, ClientInv, RefusedSendsNothing, Program
  <2>3. CASE Opening
    BY <1>5, <2>3 DEF Opening, vars, ClientInv, RefusedSendsNothing, Program
  <2>4. CASE ArgumentsRefused \/ TooLong \/ MatrixDone
    BY <1>5, <2>4 DEF ArgumentsRefused, TooLong, MatrixDone, Quit, vars, ClientInv, RefusedSendsNothing, Program
  <2>5. CASE ProbeTransfer
    <3>1. args.asks \in Transfers /\ args.length \in Lengths /\ pc' = pc
      BY <2>5 DEF ProbeTransfer, ClientInv, Ctrl
    <3>2. args.asks = "write" /\ args.length # 0 => Refused'
      BY <2>5, <3>1, EmptyBufferRefused DEF ProbeTransfer
    <3> QED
      BY <1>5, <2>5, <3>1, <3>2 DEF ProbeTransfer, ClientInv, RefusedSendsNothing, Program
  <2>6. CASE CheckTransfer
    BY <1>5, <2>6 DEF CheckTransfer, Failed, Quit, vars, ClientInv, RefusedSendsNothing, Refused, Program
  <2>7. CASE LastOsError
    BY <1>5, <2>7 DEF LastOsError, Makes, OtherCall, Idle, client, ClientInv, RefusedSendsNothing, Program
  <2>8. CASE MatrixTransfer
    <3>1. pc' = pc
      BY <2>8 DEF MatrixTransfer, Ctrl
    <3> QED
      BY <1>5, <2>8, <3>1 DEF MatrixTransfer, ClientInv, RefusedSendsNothing, Program
  <2> QED
    BY <1>5, <2>1, <2>2, <2>3, <2>4, <2>5, <2>6, <2>7, <2>8 DEF Program
<1> QED
  BY <1>1, <1>2, <1>3, <1>4, <1>5 DEF ClientNext

LEMMA AlwaysClientInv == ClientSpec => []ClientInv
  BY InitClientInv, StepClientInv, PTL DEF ClientSpec

\* The library cannot tell the two programs from any client: every behaviour of
\* theirs is one of Ks959Device.
THEOREM ProgramsAreClients == ClientSpec => Spec
<1>1. ClientInit => Init
  BY DEF ClientInit
<1> QED
  BY <1>1, ClientCalls, AlwaysClientInv, PTL DEF ClientSpec, Spec

\* Whatever calls fail under the two programs, outside the library exactly the
\* open device's resources are held.
THEOREM NothingLeaksHere == ClientSpec => []NothingLeaks
  BY ProgramsAreClients, NoLeak, PTL

\* No handle outlives what it was made from, also under the two programs.
THEOREM ReleasedInOrderHere == ClientSpec => []ReleasedInOrder
  BY ProgramsAreClients, OrderOfRelease, PTL

\* What a transfer of the two programs, or of any client, counts is true, also
\* for the writes without data that are all the writes these programs make.
THEOREM CountIsTrueHere == ClientSpec => []CountIsTrue
  BY ProgramsAreClients, CountsTrue, PTL

\* The error they print after a failed transfer, with data or without, is that
\* transfer's.
THEOREM OsErrorIsTheCallsHere == ClientSpec => []OsErrorIsTheCalls
  BY ProgramsAreClients, ErrorsTrue, PTL

\* Told that there is no device, they have one that the system said is gone, or
\* have met none that could be read as far as the enumeration went.
THEOREM NoDeviceIsTrueHere == ClientSpec => NoDeviceIsTrue
  BY ProgramsAreClients, NoDeviceTrue, PTL

\* ks959-lib-probe asks for a write it does not support before it says so; the
\* library has refused it, whatever its length, and nothing was sent.
THEOREM NothingSent == ClientSpec => []RefusedSendsNothing
  BY AlwaysClientInv, PTL DEF ClientInv
=============================================================================
