----------------------------- MODULE DriverProofs -----------------------------
(***************************************************************************)
(* What every process of the driver keeps to, whatever it is asked and     *)
(* however often it is killed.                                             *)
(***************************************************************************)
EXTENDS Driver, SequenceTheorems, WellFoundedInduction, TLAPS

\* Before main has built the servers, and after the process has ended.
Bare == {"main", "config", "newDriver", "exited"}

\* The two switches over the mode: what is built, and what is registered.
ServersInv ==
  /\ built = IF phase \in Bare THEN {} ELSE ServersOf(config.mode)
  /\ services = IF phase = "serve" THEN ServersOf(config.mode) ELSE {}
  /\ phase \notin {"main", "exited"} => config.mode \in Modes

\* The reply of a request is one its handler gives, if the mode has the service.
Expected(req) ==
  IF ServiceOf(req.rpc) \in ServersOf(config.mode) THEN Handle(req) ELSE {Reply("Unimplemented")}

ReplyInv == last # Nil => last.reply \in Expected(last.req)

\* What was accepted once passes all the checks of the modes and the types.
Accepted(cap) ==
  validateVolumeCapability(cap) /\ cap.type # "block" /\ cap.mode \in volumeCapabilities

GrantedInv == \A cap \in granted : Accepted(cap)

Inv == TypeOK /\ ServersInv /\ ReplyInv /\ GrantedInv

-----------------------------------------------------------------------------
(* The handlers *)

\* There is a first unsupported capability, if there is one.
LEMMA Smallest ==
  ASSUME NEW T, T \subseteq Nat, T # {}
  PROVE  \E i \in T : \A j \in T : i <= j
<1>1. PICK i \in T : \A j \in T : ~ (<<j, i>> \in OpToRel(<, Nat))
  BY NatLessThanWellFounded, WFMin
<1>2. \A j \in T : i <= j
  <2> TAKE j \in T
  <2>1. i \in Nat /\ j \in Nat
    OBVIOUS
  <2>2. ~ (j < i)
    BY <1>1, <2>1 DEF OpToRel
  <2> QED
    BY <2>1, <2>2
<1> QED
  BY <1>2

\* checkModes does not panic on capabilities that were validated before.
LEMMA CheckModesSafe ==
  ASSUME NEW caps, DOMAIN caps \subseteq Nat,
         \A i \in DOMAIN caps : validateVolumeCapability(caps[i])
  PROVE  checkModes(caps) \in {"OK", "InvalidArgument"}
<1> DEFINE mode(i)     == IF caps[i] = Nil THEN Nil ELSE caps[i].mode
           unsupported == {i \in DOMAIN caps : mode(i) \notin volumeCapabilities}
           first       == CHOOSE i \in unsupported : \A j \in unsupported : i <= j
<1>1. \A i \in DOMAIN caps : mode(i) # Nil
  BY NilAssumption DEF validateVolumeCapability, validateMode
<1>2. unsupported # {} => first \in unsupported
  <2> HIDE DEF mode
  <2> SUFFICES ASSUME unsupported # {} PROVE first \in unsupported
    OBVIOUS
  <2>1. \E i \in unsupported : \A j \in unsupported : i <= j
    <3>1. unsupported \subseteq Nat
      OBVIOUS
    <3> HIDE DEF unsupported
    <3> QED
      BY <3>1, Smallest
  <2> HIDE DEF unsupported
  <2> QED
    BY <2>1
<1>3. unsupported # {} => mode(first) # Nil
  <2> HIDE DEF first, mode
  <2> QED
    BY <1>1, <1>2
<1>4. checkModes(caps) = IF unsupported = {} THEN "OK"
                         ELSE IF mode(first) = Nil THEN "panic" ELSE "InvalidArgument"
  BY DEF checkModes
<1> HIDE DEF unsupported, first, mode
<1> QED
  BY <1>3, <1>4

\* A check that lets the capabilities pass has found each of its modes supported.
LEMMA CheckModesSound ==
  ASSUME NEW caps, checkModes(caps) = "OK",
         \A i \in DOMAIN caps : validateVolumeCapability(caps[i])
  PROVE  \A i \in DOMAIN caps : caps[i].mode \in volumeCapabilities
<1> DEFINE mode(i)     == IF caps[i] = Nil THEN Nil ELSE caps[i].mode
           unsupported == {i \in DOMAIN caps : mode(i) \notin volumeCapabilities}
           first       == CHOOSE i \in unsupported : \A j \in unsupported : i <= j
<1>1. checkModes(caps) = IF unsupported = {} THEN "OK"
                         ELSE IF mode(first) = Nil THEN "panic" ELSE "InvalidArgument"
  BY DEF checkModes
<1> HIDE DEF first
<1>2. unsupported = {}
  <2> HIDE DEF unsupported, mode
  <2> QED
    BY <1>1
<1> QED
  BY <1>2 DEF validateVolumeCapability

\* A single capability with a supported mode passes.
LEMMA CheckModesAccepts ==
  ASSUME NEW cap, Accepted(cap)
  PROVE  checkModes(<<cap>>) = "OK"
<1> DEFINE mode(i)     == IF <<cap>>[i] = Nil THEN Nil ELSE <<cap>>[i].mode
           unsupported == {i \in DOMAIN <<cap>> : mode(i) \notin volumeCapabilities}
           first       == CHOOSE i \in unsupported : \A j \in unsupported : i <= j
<1>1. checkModes(<<cap>>) = IF unsupported = {} THEN "OK"
                            ELSE IF mode(first) = Nil THEN "panic" ELSE "InvalidArgument"
  BY DEF checkModes
<1> HIDE DEF first
<1>2. unsupported = {}
  BY DEF Accepted, validateVolumeCapability
<1> QED
  BY <1>1, <1>2

\* The same for the list of one that the handlers of a single capability check.
LEMMA CheckModesOne ==
  ASSUME NEW cap, validateVolumeCapability(cap)
  PROVE  checkModes(<<cap>>) \in {"OK", "InvalidArgument"}
<1>1. DOMAIN <<cap>> \subseteq Nat /\ \A i \in DOMAIN <<cap>> : validateVolumeCapability(<<cap>>[i])
  OBVIOUS
<1> QED
  BY <1>1, CheckModesSafe

\* What CreateVolume accepts, it has validated.
LEMMA CreateVolumeAccepts ==
  ASSUME NEW req \in Messages, req.rpc = "CreateVolume",
         NEW reply \in CreateVolume(req), reply.code = "OK"
  PROVE  /\ CreateVolumeRequestValidate(req) = "OK"
         /\ \A i \in DOMAIN req.caps : req.caps[i].type # "block"
         /\ Nil \notin getAccessModes(req.caps)
         /\ \E o \in parseParameters(req.params) :
              reply.spec = [ns |-> o.ns, class |-> o.class, size |-> getCapacityBytes(req.range),
                            modes |-> getAccessModes(req.caps)]
<1> DEFINE verdict == CreateVolumeRequestValidate(req)
           options == parseParameters(req.params)
           modes   == getAccessModes(req.caps)
           blocked == \E i \in DOMAIN req.caps : req.caps[i].type = "block"
<1>1. CreateVolume(req) =
        IF verdict # "OK" THEN {Reply(verdict)}
        ELSE IF blocked \/ options = {} THEN {Reply("InvalidArgument")}
        ELSE IF Nil \in modes THEN {Reply("Internal")}
        ELSE {[code |-> "OK", spec |-> [ns |-> o.ns, class |-> o.class,
                                        size |-> getCapacityBytes(req.range),
                                        modes |-> modes]] : o \in options}
  BY DEF CreateVolume
<1>2. \A code : Reply(code).code = code
  BY DEF Reply
<1>3. verdict = "OK"
  <2> HIDE DEF verdict, options, modes, blocked
  <2> QED
    BY <1>1, <1>2
<1>4. ~ blocked /\ Nil \notin modes
  <2> HIDE DEF verdict, options, modes, blocked
  <2> QED
    BY <1>1, <1>2, <1>3
<1>5. \E o \in options : reply = [code |-> "OK", spec |-> [ns |-> o.ns, class |-> o.class,
                                        size |-> getCapacityBytes(req.range),
                                        modes |-> modes]]
  <2> HIDE DEF verdict, options, modes, blocked
  <2> QED
    BY <1>1, <1>2, <1>3, <1>4, Zenon
<1> QED
  BY <1>3, <1>4, <1>5

\* The capabilities that pass the validation are in a list that is not empty.
LEMMA CreateVolumeValidated ==
  ASSUME NEW req \in Messages, req.rpc = "CreateVolume", CreateVolumeRequestValidate(req) = "OK"
  PROVE  /\ validateCapacityRange(req.range)
         /\ DOMAIN req.caps # {}
         /\ \A i \in DOMAIN req.caps : validateVolumeCapability(req.caps[i])
         /\ checkModes(req.caps) = "OK"
<1>1. /\ validateCapacityRange(req.range)
      /\ validateVolumeCapabilities(req.caps)
      /\ checkModes(req.caps) = "OK"
  BY DEF CreateVolumeRequestValidate
<1>2. req.caps # << >> /\ req.caps \in Seq(Capability)
  BY <1>1, MessagesAssumption DEF validateVolumeCapabilities
<1>3. DOMAIN req.caps # {}
  <2>1. Len(req.caps) \in Nat /\ Len(req.caps) # 0 /\ DOMAIN req.caps = 1 .. Len(req.caps)
    BY <1>2, EmptySeq
  <2> QED
    BY <2>1
<1> QED
  BY <1>1, <1>3 DEF validateVolumeCapabilities

\* CreateVolume does not panic.
LEMMA CreateVolumeSafe ==
  ASSUME NEW req \in Messages, req.rpc = "CreateVolume", NEW reply \in CreateVolume(req)
  PROVE  reply.code \notin {"panic", "Unimplemented"}
<1> DEFINE verdict == CreateVolumeRequestValidate(req)
<1>1. verdict \in {"OK", "InvalidArgument"}
  <2>1. CASE validateVolumeCapabilities(req.caps)
    <3>1. DOMAIN req.caps \subseteq Nat
      <4>1. req.caps \in Seq(Capability)
        BY MessagesAssumption
      <4>2. DOMAIN req.caps = 1 .. Len(req.caps) /\ Len(req.caps) \in Nat
        BY <4>1
      <4> QED
        BY <4>2
    <3>2. checkModes(req.caps) \in {"OK", "InvalidArgument"}
      BY <2>1, <3>1, CheckModesSafe DEF validateVolumeCapabilities
    <3> QED
      BY <3>2 DEF CreateVolumeRequestValidate
  <2>2. CASE ~ validateVolumeCapabilities(req.caps)
    BY <2>2 DEF CreateVolumeRequestValidate
  <2> QED
    BY <2>1, <2>2
<1> DEFINE options == parseParameters(req.params)
           modes   == getAccessModes(req.caps)
           blocked == \E i \in DOMAIN req.caps : req.caps[i].type = "block"
           accepted(o) == [code |-> "OK", spec |-> [ns |-> o.ns, class |-> o.class,
                                                    size |-> getCapacityBytes(req.range),
                                                    modes |-> modes]]
<1>2. CreateVolume(req) =
        IF verdict # "OK" THEN {Reply(verdict)}
        ELSE IF blocked \/ options = {} THEN {Reply("InvalidArgument")}
        ELSE IF Nil \in modes THEN {Reply("Internal")}
        ELSE {accepted(o) : o \in options}
  BY DEF CreateVolume
<1>3. /\ \A code : Reply(code).code = code
      /\ \A o : accepted(o).code = "OK"
  BY DEF Reply
<1> HIDE DEF verdict, options, modes, blocked, accepted
<1>4. reply.code \in {"OK", "InvalidArgument", "Internal"}
  BY <1>1, <1>2, <1>3
<1> QED
  BY <1>4

\* The handlers of a single capability do not panic either.
LEMMA PublishSafe ==
  ASSUME NEW req
  PROVE  /\ \A reply \in ControllerPublishVolume(req) : reply.code \in {"OK", "InvalidArgument"}
         /\ \A reply \in NodePublishVolume(req) : reply.code \in {"OK", "InvalidArgument"}
<1>1. CASE validateVolumeCapability(req.cap)
  <2>1. checkModes(<<req.cap>>) \in {"OK", "InvalidArgument"}
    BY <1>1, CheckModesOne
  <2>2. /\ ControllerPublishVolumeRequestValidate(req) \in {"OK", "InvalidArgument"}
        /\ NodePublishVolumeRequestValidate(req) \in {"OK", "InvalidArgument"}
    BY <2>1 DEF ControllerPublishVolumeRequestValidate, NodePublishVolumeRequestValidate
  <2>3. req.cap.type \in {"block", "mount"}
    BY <1>1 DEF validateVolumeCapability, validateAccessType
  <2> QED
    BY <2>2, <2>3 DEF ControllerPublishVolume, NodePublishVolume, Reply
<1>2. CASE ~ validateVolumeCapability(req.cap)
  <2>1. /\ ControllerPublishVolumeRequestValidate(req) = "InvalidArgument"
        /\ NodePublishVolumeRequestValidate(req) = "InvalidArgument"
    BY <1>2 DEF ControllerPublishVolumeRequestValidate, NodePublishVolumeRequestValidate
  <2> QED
    BY <2>1 DEF ControllerPublishVolume, NodePublishVolume, Reply
<1> QED
  BY <1>1, <1>2

\* No handler panics.
LEMMA HandleSafe ==
  ASSUME NEW req \in Messages, NEW reply \in Handle(req)
  PROVE  reply.code # "panic"
<1>1. CASE req.rpc = "CreateVolume"
  <2>1. reply \in CreateVolume(req)
    BY <1>1 DEF Handle, Answering, IdentityRPCs
  <2> QED
    BY <1>1, <2>1, CreateVolumeSafe
<1>2. CASE req.rpc = "ControllerPublishVolume"
  <2>1. reply \in ControllerPublishVolume(req)
    BY <1>2 DEF Handle, Answering, IdentityRPCs
  <2> QED
    BY <2>1, PublishSafe
<1>3. CASE req.rpc = "NodePublishVolume"
  <2>1. reply \in NodePublishVolume(req)
    BY <1>3 DEF Handle, Answering, IdentityRPCs
  <2> QED
    BY <2>1, PublishSafe
<1>4. CASE req.rpc \in {"DeleteVolume", "ControllerUnpublishVolume", "NodeUnpublishVolume"}
  <2>1. reply \in DeleteVolume(req) \cup ControllerUnpublishVolume(req)
                    \cup NodeUnpublishVolume(req)
    BY <1>4 DEF Handle, Answering, IdentityRPCs
  <2>2. /\ DeleteVolumeRequestValidate(req) \in {"OK", "InvalidArgument"}
        /\ ControllerUnpublishVolumeRequestValidate(req) \in {"OK", "InvalidArgument"}
        /\ NodeUnpublishVolumeRequestValidate(req) \in {"OK", "InvalidArgument"}
    BY DEF DeleteVolumeRequestValidate, ControllerUnpublishVolumeRequestValidate,
           NodeUnpublishVolumeRequestValidate
  <2>3. reply \in {Reply("OK"), Reply("InvalidArgument")}
    BY <2>1, <2>2 DEF DeleteVolume, ControllerUnpublishVolume, NodeUnpublishVolume
  <2> QED
    BY <2>3 DEF Reply
<1>5. CASE req.rpc \notin {"CreateVolume", "ControllerPublishVolume", "NodePublishVolume",
                           "DeleteVolume", "ControllerUnpublishVolume", "NodeUnpublishVolume"}
  <2>1. reply \in {Reply("OK"), Reply("Unimplemented")}
    BY <1>5 DEF Handle
  <2> QED
    BY <2>1 DEF Reply
<1> QED
  BY <1>1, <1>2, <1>3, <1>4, <1>5

\* The same of what the gRPC server replies, with or without the service.
LEMMA ExpectedSafe ==
  ASSUME NEW req \in Messages, NEW reply \in Expected(req)
  PROVE  reply.code # "panic"
BY HandleSafe DEF Expected, Reply

\* Where the process serves, it replies what is expected.
LEMMA RepliesExpected ==
  ASSUME ServersInv, phase = "serve", NEW req
  PROVE  Replies(req) = Expected(req)
BY DEF ServersInv, Bare, Replies, Expected

\* A capability of an accepted CreateVolume can be used.
LEMMA CreateVolumeGrants ==
  ASSUME NEW req \in Messages, req.rpc = "CreateVolume",
         NEW reply \in Handle(req), reply.code = "OK"
  PROVE  \A i \in DOMAIN req.caps : Accepted(req.caps[i])
<1>1. reply \in CreateVolume(req)
  BY DEF Handle, Answering, IdentityRPCs
<1>2. /\ CreateVolumeRequestValidate(req) = "OK"
      /\ \A i \in DOMAIN req.caps : req.caps[i].type # "block"
  BY <1>1, CreateVolumeAccepts
<1>3. /\ \A i \in DOMAIN req.caps : validateVolumeCapability(req.caps[i])
      /\ checkModes(req.caps) = "OK"
  BY <1>2, CreateVolumeValidated
<1>4. \A i \in DOMAIN req.caps : req.caps[i].mode \in volumeCapabilities
  BY <1>3, CheckModesSound
<1> QED
  BY <1>2, <1>3, <1>4 DEF Accepted

-----------------------------------------------------------------------------
(* The invariant *)

\* It holds when the container is started.
LEMMA InvInit == Init => Inv
<1> SUFFICES ASSUME Init PROVE Inv
  OBVIOUS
<1>1. TypeOK
  <2>1. crashes \in 0 .. MaxCrashes
    BY CrashesAssumption DEF Init
  <2> QED
    BY <2>1 DEF Init, TypeOK, Phases
<1>2. ServersInv
  BY DEF Init, ServersInv, Bare
<1>3. ReplyInv /\ GrantedInv
  BY DEF Init, ReplyInv, GrantedInv
<1> QED
  BY <1>1, <1>2, <1>3 DEF Inv

\* The servers of a known mode are among those that there are.
LEMMA ServersOfServices == config.mode \in Modes => ServersOf(config.mode) \subseteq Services
BY DEF ServersOf, Services, Modes

\* An answer keeps the invariant, and it is one that is expected.
LEMMA InvAnswer ==
  ASSUME Inv, NEW req \in Messages, NEW reply \in Replies(req), Answer(req, reply)
  PROVE  Inv' /\ last' = [req |-> req, reply |-> reply] /\ reply \in Expected(req)
<1>1. reply \in Expected(req)
  BY RepliesExpected DEF Answer, Inv
<1>2. reply.code # "panic"
  BY <1>1, ExpectedSafe
<1>3. UNCHANGED <<config, process, file, crashes>> /\ last' = [req |-> req, reply |-> reply]
  BY <1>2 DEF Answer
<1>4. TypeOK' /\ ServersInv'
  BY <1>3 DEF Inv, TypeOK, ServersInv, process
<1>5. ReplyInv'
  <2>1. Expected(req)' = Expected(req)
    BY <1>3 DEF Expected
  <2> QED
    BY <1>1, <1>3, <2>1 DEF ReplyInv, Expected
<1>6. GrantedInv'
  <2>1. CASE req.rpc = "CreateVolume" /\ reply.code = "OK"
    <3>1. reply \in Handle(req)
      BY <1>1, <2>1 DEF Expected, Reply
    <3>2. \A i \in DOMAIN req.caps : Accepted(req.caps[i])
      BY <2>1, <3>1, CreateVolumeGrants
    <3>3. granted' = granted \cup {req.caps[i] : i \in DOMAIN req.caps}
      BY <2>1 DEF Answer
    <3> QED
      BY <3>2, <3>3 DEF Inv, GrantedInv
  <2>2. CASE ~ (req.rpc = "CreateVolume" /\ reply.code = "OK")
    BY <2>2 DEF Answer, Inv, GrantedInv
  <2> QED
    BY <2>1, <2>2
<1> QED
  BY <1>1, <1>3, <1>4, <1>5, <1>6 DEF Inv

\* A step of the process itself: what was said to the clients stays.
LEMMA InvMain ==
  ASSUME Inv, UNCHANGED <<config, traffic>>, crashes' \in 0 .. MaxCrashes, file' \in BOOLEAN,
         synced' \in BOOLEAN, phase' \in Phases, ServersInv'
  PROVE  Inv'
<1>1. services' \subseteq built' /\ built' \subseteq Services
  <2>1. config' = config
    OBVIOUS
  <2>2. ServersOf(config.mode)' = ServersOf(config.mode)
    BY <2>1
  <2>3. phase' \notin Bare => ServersOf(config.mode) \subseteq Services
    BY <2>1, ServersOfServices DEF ServersInv, Bare
  <2> QED
    BY <2>2, <2>3 DEF ServersInv, Bare
<1>2. TypeOK'
  BY <1>1 DEF Inv, TypeOK, traffic
<1>3. ReplyInv'
  <2>1. config' = config /\ last' = last
    BY DEF traffic
  <2> QED
    BY <2>1 DEF Inv, ReplyInv, Expected
<1>4. GrantedInv'
  BY DEF Inv, GrantedInv, traffic
<1> QED
  BY <1>2, <1>3, <1>4 DEF Inv

\* Every step keeps the invariant.
LEMMA InvNext == Inv /\ [Next]_vars => Inv'
<1> SUFFICES ASSUME Inv, [Next]_vars PROVE Inv'
  OBVIOUS
<1>0. TypeOK /\ ServersInv
  BY DEF Inv
<1>1. CASE /\ Exits /\ UNCHANGED <<config, traffic>>
           /\ file' \in BOOLEAN /\ crashes' \in 0 .. MaxCrashes
  <2>1. synced' \in BOOLEAN /\ phase' \in Phases /\ ServersInv'
    BY <1>1 DEF Exits, Phases, ServersInv, Bare
  <2> QED
    BY <1>1, <2>1, InvMain
<1>2. CASE Main
  <2>1. UNCHANGED <<config, traffic>> /\ crashes' \in 0 .. MaxCrashes /\ file' \in BOOLEAN
    BY <1>0, <1>2 DEF Main, TypeOK, Aside, GetOptions, NewClients, NewDriver, CachesSync,
                      WaitForCacheSync, parseEndpoint, Listen, Register
  <2>2. \/ Exits
        \/ synced' \in BOOLEAN /\ phase' \in Phases /\ ServersInv'
    <3> USE <1>0 DEF TypeOK, ServersInv, Bare, Phases, Aside, Step
    <3>1. CASE GetOptions
      BY <3>1 DEF GetOptions
    <3>2. CASE NewClients
      BY <3>2 DEF NewClients
    <3>3. CASE NewDriver
      BY <3>3 DEF NewDriver, NewServers
    <3>4. CASE CachesSync
      BY <3>4 DEF CachesSync
    <3>5. CASE WaitForCacheSync
      BY <3>5 DEF WaitForCacheSync
    <3>6. CASE parseEndpoint
      BY <3>6 DEF parseEndpoint
    <3>7. CASE Listen
      BY <3>7 DEF Listen
    <3>8. CASE Register
      BY <3>8 DEF Register
    <3> QED
      BY <1>2, <3>1, <3>2, <3>3, <3>4, <3>5, <3>6, <3>7, <3>8 DEF Main
  <2> QED
    BY <1>1, <2>1, <2>2, InvMain
<1>3. CASE Crash
  <2>1. crashes' \in 0 .. MaxCrashes
    BY <1>0, <1>3, CrashesAssumption DEF Crash, TypeOK
  <2> QED
    BY <1>0, <1>1, <1>3, <2>1 DEF Crash, TypeOK
<1>4. CASE Restart
  <2>1. /\ UNCHANGED <<config, traffic, crashes, file, synced>>
        /\ phase' = "main" /\ built' = built /\ services' = services /\ phase = "exited"
    BY <1>4 DEF Restart, Step, Aside
  <2>2. phase' \in Phases /\ ServersInv'
    BY <1>0, <2>1 DEF ServersInv, Phases, Bare
  <2> QED
    BY <1>0, <2>1, <2>2, InvMain DEF TypeOK
<1>5. CASE Serve
  BY <1>5, InvAnswer DEF Serve
<1>6. CASE Again
  BY <1>0, <1>6, InvAnswer DEF Again, TypeOK
<1>7. CASE Received
  BY <1>7 DEF Received, Inv, TypeOK, ServersInv, ReplyInv, GrantedInv, process
<1>8. CASE UNCHANGED vars
  BY <1>8 DEF vars, process, traffic, Inv, TypeOK, ServersInv, ReplyInv, Expected, GrantedInv
<1> QED
  BY <1>2, <1>3, <1>4, <1>5, <1>6, <1>7, <1>8 DEF Next

\* In every reachable state the invariant holds.
LEMMA DriverInv == Spec => []Inv
BY InvInit, InvNext, PTL DEF Spec

-----------------------------------------------------------------------------
(* What follows from it *)

\* In every state that can be reached the variables have their types, and no
\* service is registered whose server was not built (NewDriver, Run).
THEOREM DriverTypeOK == Spec => []TypeOK
<1>1. Inv => TypeOK
  BY DEF Inv
<1> QED
  BY <1>1, DriverInv, PTL

\* No request, and no order of requests and restarts, makes a handler panic: what
\* checkModes, getAccessModes and the mounter dereference, the validators saw.
THEOREM HandlersNeverPanic == Spec => []NeverPanics
<1>1. Inv => NeverPanics
  BY ExpectedSafe DEF Inv, NeverPanics, ReplyInv, TypeOK
<1> QED
  BY <1>1, DriverInv, PTL

\* A spec that reaches CreateLower has a size within the range, a storage class
\* that is not "" and only access modes of Kubernetes (validateCapacityRange,
\* parseParameters, getAccessModes).
THEOREM SpecsAreAsAssumed == Spec => []SpecsAsAssumed
<1>1. Inv => SpecsAsAssumed
  <2> SUFFICES ASSUME Inv, last # Nil, last.req.rpc = "CreateVolume", last.reply.code = "OK"
               PROVE  SpecsAsAssumed
    BY DEF SpecsAsAssumed
  <2> DEFINE req  == last.req
             spec == last.reply.spec
  <2>1. req \in Messages /\ last.reply \in CreateVolume(req)
    BY DEF Inv, TypeOK, ReplyInv, Expected, Reply, Handle, Answering, IdentityRPCs
  <2>2. /\ CreateVolumeRequestValidate(req) = "OK"
        /\ Nil \notin getAccessModes(req.caps)
        /\ \E o \in parseParameters(req.params) :
             spec = [ns |-> o.ns, class |-> o.class, size |-> getCapacityBytes(req.range),
                     modes |-> getAccessModes(req.caps)]
    BY <2>1, CreateVolumeAccepts
  <2>3. validateCapacityRange(req.range) /\ DOMAIN req.caps # {}
    BY <2>1, <2>2, CreateVolumeValidated
  <2>4. PICK o \in parseParameters(req.params) :
          spec = [ns |-> o.ns, class |-> o.class, size |-> getCapacityBytes(req.range),
                  modes |-> getAccessModes(req.caps)]
    BY <2>2
  <2>5. o.class # ""
    <3>1. /\ o.class \in LowerStorageClassNames(req.params)
          /\ \A p \in req.params : p.key = "lowerstorageclassname" => p.value # ""
      BY DEF parseParameters
    <3> QED
      BY <3>1 DEF LowerStorageClassNames, Given
  <2>6. spec.class # ""
    <3>1. spec.class = o.class
      BY <2>4
    <3> QED
      BY <2>5, <3>1
  <2>7. spec.modes # {} /\ Nil \notin spec.modes
    BY <2>2, <2>3, <2>4 DEF getAccessModes
  <2>8. /\ spec.size >= 0
        /\ req.range # Nil => /\ spec.size >= req.range.required
                              /\ req.range.limit > 0 => spec.size <= req.range.limit
    <3>1. req.range = Nil \/ (req.range.required \in Int /\ req.range.limit \in Int)
      BY <2>1, MessagesAssumption
    <3>2. spec.size = getCapacityBytes(req.range)
      BY <2>4
    <3> QED
      BY <2>3, <3>1, <3>2 DEF validateCapacityRange, getCapacityBytes, DefaultCapacityBytes
  <2> QED
    BY <2>6, <2>7, <2>8 DEF SpecsAsAssumed
<1> QED
  BY <1>1, DriverInv, PTL

\* What CreateVolume accepted once, ControllerPublishVolume and NodePublishVolume
\* do not refuse later on, in whatever process (the three validators).
THEOREM CreatedIsUsable == Spec => []CreatedMeansUsable
<1>1. Inv => CreatedMeansUsable
  <2> SUFFICES ASSUME Inv, last # Nil, last.req.cap \in granted, WellFormed(last.req),
                      last.req.rpc \in {"ControllerPublishVolume", "NodePublishVolume"}
               PROVE  last.reply.code # "InvalidArgument"
    BY DEF CreatedMeansUsable
  <2> DEFINE req == last.req
  <2>1. Accepted(req.cap) /\ validateVolumeCapability(req.cap) /\ req.cap.type # "block"
    BY DEF Inv, GrantedInv, Accepted
  <2>2. checkModes(<<req.cap>>) = "OK"
    BY <2>1, CheckModesAccepts
  <2>3. req \in Messages /\ last.reply \in Handle(req) \cup {Reply("Unimplemented")}
    BY DEF Inv, TypeOK, ReplyInv, Expected
  <2>4. CASE req.rpc = "ControllerPublishVolume"
    <3>1. ControllerPublishVolumeRequestValidate(req) = "OK"
      BY <2>1, <2>2, <2>4 DEF WellFormed, ControllerPublishVolumeRequestValidate
    <3>2. Handle(req) = {Reply("OK")}
      BY <2>4, <3>1 DEF Handle, Answering, IdentityRPCs, ControllerPublishVolume
    <3> QED
      BY <2>3, <3>2 DEF Reply
  <2>5. CASE req.rpc = "NodePublishVolume"
    <3>1. req.staging \in {"", "relative", "absolute"}
      BY <2>3, <2>5, MessagesAssumption
    <3>2. NodePublishVolumeRequestValidate(req) = "OK"
      BY <2>1, <2>2, <2>5, <3>1 DEF WellFormed, NodePublishVolumeRequestValidate,
                                    validateTargetPath, nodeCapabilities
    <3>3. Handle(req) \subseteq {Reply("OK"), Reply("panic")}
      BY <2>1, <2>5, <3>2 DEF Handle, Answering, IdentityRPCs, NodePublishVolume, WellFormed
    <3> QED
      BY <2>3, <3>3 DEF Reply
  <2> QED
    BY <2>4, <2>5
<1> QED
  BY <1>1, DriverInv, PTL

\* Parameters without two spellings of a key are read in one way.
LEMMA ParametersReadOnce ==
  ASSUME NEW params, Unambiguous(params),
         NEW o \in parseParameters(params), NEW p \in parseParameters(params)
  PROVE  o = p
<1>1. \A key : \A v, w \in Given(params, key) : v = w
  BY DEF Unambiguous, Given
<1>2. \A n, m \in LowerNamespaces(params) : n = m
  BY <1>1 DEF LowerNamespaces
<1>3. \A n, m \in LowerStorageClassNames(params) : n = m
  BY <1>1 DEF LowerStorageClassNames
<1>4. /\ o \in [ns : LowerNamespaces(params), class : LowerStorageClassNames(params)]
      /\ p \in [ns : LowerNamespaces(params), class : LowerStorageClassNames(params)]
  BY DEF parseParameters
<1> QED
  BY <1>2, <1>3, <1>4

\* A repeated CreateVolume gets its first reply again, the spec included, from
\* this process or from a later one (parseParameters, CreateVolume).
THEOREM RepeatedAsksForTheSame == Spec => SameRequestSameSpec
<1>1. Inv /\ [Next]_vars
      => [/\ last # Nil /\ last' # Nil
          /\ last.req.rpc = "CreateVolume"
          /\ Unambiguous(last.req.params)
          /\ last.reply.code = "OK"
          => last'.reply = last.reply]_vars
  <2> SUFFICES ASSUME Inv, Next, last # Nil, last' # Nil, last.req.rpc = "CreateVolume",
                      Unambiguous(last.req.params), last.reply.code = "OK"
               PROVE  last'.reply = last.reply
    OBVIOUS
  <2> DEFINE req == last.req
  <2>1. CASE Again
    <3>1. PICK reply \in Replies(req) : Answer(req, reply)
      BY <2>1 DEF Again
    <3>2. req \in Messages /\ last.reply \in Expected(req)
      BY DEF Inv, TypeOK, ReplyInv
    <3>3. last' = [req |-> req, reply |-> reply] /\ reply \in Expected(req)
      BY <3>1, <3>2, InvAnswer
    <3>4. last.reply \in CreateVolume(req) /\ reply \in CreateVolume(req)
      BY <3>2, <3>3 DEF Expected, Reply, Handle, Answering, IdentityRPCs
    <3>5. /\ CreateVolumeRequestValidate(req) = "OK"
          /\ \A i \in DOMAIN req.caps : req.caps[i].type # "block"
          /\ Nil \notin getAccessModes(req.caps)
          /\ parseParameters(req.params) # {}
      BY <3>2, <3>4, CreateVolumeAccepts
    <3>6. \A r \in CreateVolume(req) : \E o \in parseParameters(req.params) :
            r = [code |-> "OK", spec |-> [ns |-> o.ns, class |-> o.class,
                                          size |-> getCapacityBytes(req.range),
                                          modes |-> getAccessModes(req.caps)]]
      BY <3>5 DEF CreateVolume
    <3>7. reply = last.reply
      BY <3>4, <3>6, ParametersReadOnce
    <3> QED
      BY <3>3, <3>7
  <2>2. CASE ~ Again
    BY <2>2 DEF Next, Main, Serve, Received, Crash, Restart, Aside, traffic, GetOptions,
                NewClients, NewDriver, CachesSync, WaitForCacheSync, parseEndpoint, Listen, Register
  <2> QED
    BY <2>1, <2>2
<1> QED
  BY <1>1, DriverInv, PTL DEF Spec, SameRequestSameSpec
=============================================================================
