--------------------------- MODULE QueryClient_proofs ---------------------------
(***************************************************************************)
(* getAddress(), showAddress() and their like, for every set of recovery   *)
(* phrases and every pattern of losses, locks, restarts and failures: what *)
(* a call puts together is of phrases the device had meanwhile, and a shown *)
(* address is the one that was approved.  The calls are those of a host    *)
(* Device is specified for, so its invariants are used as they are.        *)
(***************************************************************************)
EXTENDS QueryClient, Device_proofs

\* What the three answers of getAddress() are, in their order.
AddressParts == <<"address", "pk0", "pk1">>

\* No call asks for a signature, and only showAddress() for a review.
ReviewOwned ==
    /\ review # "txn"
    /\ link = "taken" /\ call # "showAddress" => review = "none"

\* A running call knows the present phrase, and whether the slot is damaged.
Calm ==
    /\ call = "none" => got = <<>>
    /\ call # "none" => deviceSeed \in phrases
    /\ call # "none" /\ ~damaged => ~OnCutSlot

\* An answer getAddress() has in its place i, of a phrase of the call.
PartInPlace(i, a) == \E k \in phrases : a = [part |-> AddressParts[i], key |-> k]

\* The answers getAddress() has so far are of phrases of the call, the one that
\* waits is in its place.
AddressSoFar ==
    call = "getAddress" =>
        /\ ~damaged => \A i \in 1..Len(got) : PartInPlace(i, got[i])
        /\ link = "taken" /\ reply.sw = "OK" =>
              reply.part = AddressParts[Len(got) + 1]

\* The address waiting for showAddress() is in the buffer as it was approved.
ApprovedWaits ==
    call = "showAddress" /\ link = "taken" /\ reply.sw = "OK" =>
        /\ reply.part = "address"
        /\ G_io_apdu_buffer = approved

QInv == QueryTypeOK /\ ReviewOwned /\ Calm /\ AddressSoFar /\ ApprovedWaits
                    /\ KeysOfThisCall /\ ReturnsApprovedAddress

QueryIInv == DInv /\ Made /\ QInv

-----------------------------------------------------------------------------
(* The commands of a call.                                                 *)

\* The next command of a running call, and what kind it is.
LEMMA NextCommand ==
    ASSUME call \in Calls, NEW n \in Nat, n < Len(Commands(call)),
           NEW req, req = Commands(call)[n + 1]
    PROVE  /\ req \in HostRequests
           /\ req.ins \in {"GET_VERSION", "GET_ADDR", "GET_PK"}
           /\ call = "showAddress" => req.ins = "GET_ADDR" /\ req.p1 # 0 /\ n = 0
           /\ req.ins = "GET_ADDR" /\ req.p1 # 0 => call = "showAddress"
           /\ call = "getAddress" =>
                 /\ n \in 0..2
                 /\ n = 0 => req.ins = "GET_ADDR"
                 /\ n = 1 => req.ins = "GET_PK" /\ req.p2 = 0
                 /\ n = 2 => req.ins = "GET_PK" /\ req.p2 = 1
<1> USE DEF Cmd, ONLY_RETRIEVE, SHOW_ADDRESS_IN_DEVICE, P1_INIT, P1_ADD, P1_LAST
<1>1. call \in {"showAddress", "getAddress", "getVersion", "digest"}
  BY CallsAssumption
<1>2. CASE call = "showAddress"
  <2>1. Commands(call) = showAddress
    BY <1>2 DEF Commands
  <2>2. Len(showAddress) = 1 /\ DOMAIN showAddress = 1..1
    BY DEF showAddress
  <2>3. n = 0 /\ req = Cmd("GET_ADDR", SHOW_ADDRESS_IN_DEVICE, 0)
    BY <2>1, <2>2 DEF showAddress
  <2>4. req \in HostRequests
    BY <2>1, <2>2, <2>3, CommandsAssumption
  <2>5. QED
    BY <1>2, <2>3, <2>4
<1>3. CASE call = "getAddress"
  <2>1. Commands(call) = getAddress
    BY <1>3 DEF Commands
  <2>2. Len(getAddress) = 3 /\ DOMAIN getAddress = 1..3
    BY DEF getAddress
  <2>3. n \in 0..2 /\ n + 1 \in 1..3
    BY <2>1, <2>2
  <2>4. req \in HostRequests
    BY <2>1, <2>2, <2>3, CommandsAssumption
  <2>5. CASE n = 0
    BY <1>3, <2>1, <2>4, <2>5 DEF getAddress
  <2>6. CASE n = 1
    BY <1>3, <2>1, <2>4, <2>6 DEF getAddress
  <2>7. CASE n = 2
    BY <1>3, <2>1, <2>4, <2>7 DEF getAddress
  <2>8. QED
    BY <2>3, <2>5, <2>6, <2>7
<1>4. CASE call = "getVersion"
  <2>1. Commands(call) = getVersion
    BY <1>4 DEF Commands
  <2>2. Len(getVersion) = 1 /\ DOMAIN getVersion = 1..1
    BY DEF getVersion
  <2>3. n = 0 /\ req = Cmd("GET_VERSION", 0, 0)
    BY <2>1, <2>2 DEF getVersion
  <2>4. req \in HostRequests
    BY <2>1, <2>2, <2>3, CommandsAssumption
  <2>5. QED
    BY <1>4, <2>3, <2>4
<1>5. CASE call = "digest"
  <2>1. Commands(call) = digest
    BY <1>5 DEF Commands
  <2>2. Len(digest) = 3 /\ DOMAIN digest = 1..3
    BY DEF digest
  <2>3. n + 1 \in 1..3
    BY <2>1, <2>2
  <2>4. req \in HostRequests
    BY <2>1, <2>2, <2>3, CommandsAssumption
  <2>5. req.ins = "GET_VERSION"
    BY <2>1, <2>3 DEF digest
  <2>6. QED
    BY <1>5, <2>4, <2>5
<1>6. QED
  BY <1>1, <1>2, <1>3, <1>4, <1>5

\* What the device answers to them.
LEMMA QueryAnswered ==
    ASSUME NEW req, req.ins \in {"GET_VERSION", "GET_ADDR", "GET_PK"},
           handleApdu(req), review = "none"
    PROVE  /\ device_initialized' = device_initialized
           /\ review' \in {"none", "address"}
           /\ review' = "address" =>
                 /\ req.ins = "GET_ADDR" /\ req.p1 # 0
                 /\ reply'.sw # "OK"
           /\ reply'.sw = "OK" =>
                 /\ req.ins = "GET_ADDR" => reply'.part = "address" /\ req.p1 = 0
                 /\ req.ins = "GET_PK" /\ req.p2 = 0 => reply'.part = "pk0"
                 /\ req.ins = "GET_PK" /\ req.p2 = 1 => reply'.part = "pk1"
<1>1. \/ \E sw \in StatusWords \ {"OK"} : Refused(sw)
      \/ req.ins = "GET_VERSION" /\ handle_getversion
      \/ req.ins = "GET_ADDR" /\ handleGetAddress(req)
      \/ req.ins = "GET_PK" /\ handleGetPubKeyPart(req)
  BY DEF handleApdu, Served, StatusWords
<1>2. CASE \E sw \in StatusWords \ {"OK"} : Refused(sw)
  BY <1>2 DEF Refused, Reply, screens
<1>3. CASE req.ins = "GET_VERSION" /\ handle_getversion
  BY <1>3 DEF handle_getversion, Answered, Reply, screens
<1>4. CASE req.ins = "GET_ADDR" /\ handleGetAddress(req)
  BY <1>4 DEF handleGetAddress, Refused, Answered, Reply, screens
<1>5. CASE req.ins = "GET_PK" /\ handleGetPubKeyPart(req)
  BY <1>5 DEF handleGetPubKeyPart, Refused, Answered, Reply, screens
<1>6. QED
  BY <1>1, <1>2, <1>3, <1>4, <1>5

\* Every step of client and device is a step of the device, or leaves the
\* device alone.
LEMMA QueryStepIsDeviceStep ==
    ASSUME QueryTypeOK, [QueryNext]_allvars
    PROVE  [DeviceNext]_vars
<1>1. CASE Deliver
  <2>1. link = "sent" /\ Command(Commands(call)[Len(got) + 1])
    BY <1>1 DEF Deliver
  <2>2. call \in Calls /\ Len(got) \in Nat /\ Len(got) < Len(Commands(call))
    BY <2>1 DEF QueryTypeOK
  <2>3. Commands(call)[Len(got) + 1] \in HostRequests
    BY <2>2, NextCommand
  <2>4. QED
    BY <2>1, <2>3 DEF DeviceNext
<1>2. CASE (\E c \in Calls : Start(c)) \/ Respond \/ TransportFails
           \/ UNCHANGED allvars
  BY <1>2 DEF Start, Respond, TransportFails, HandleAnswer, allvars
<1>3. CASE DeviceStep
  BY <1>3 DEF DeviceStep, DeviceNext
<1>4. QED
  BY <1>1, <1>2, <1>3 DEF QueryNext

-----------------------------------------------------------------------------
(* Every step keeps the invariant.                                         *)

\* Every call sends something, and getAddress() three commands.
LEMMA CallLengths ==
    ASSUME NEW c \in Calls
    PROVE  /\ Len(Commands(c)) \in Nat /\ Len(Commands(c)) > 0
           /\ c = "showAddress" => Len(Commands(c)) = 1
           /\ c = "getAddress" => Len(Commands(c)) = 3
           /\ c # "none"
<1>1. c \in {"showAddress", "getAddress", "getVersion", "digest"}
  BY CallsAssumption
<1>2. QED
  BY <1>1 DEF Commands, showAddress, getAddress, getVersion, digest

\* Client and transport leave the slot alone.
LEMMA SlotKept ==
    ASSUME UNCHANGED vars
    PROVE  UNCHANGED <<deviceSeed, cut, slot_in_use, device_initialized, OnCutSlot>>
BY DEF vars, kvars, dvars, OnCutSlot

\* Key material is a matter of the constants.
LEMMA MaterialIsConstant == K!Material' = K!Material
BY DEF K!Material

\* No call has been made yet.
LEMMA InitQuery == QueryInit => QInv
<1> SUFFICES ASSUME QueryInit PROVE QInv
  OBVIOUS
<1>1. Zero \in K!Material
  BY DeviceInitInv, MaterialRead DEF QueryInit, DInv, KP!IInv
<1>2. got \in Seq([part : Parts, key : K!Material])
  BY DEF QueryInit
<1>3. QueryTypeOK
  BY <1>1, <1>2 DEF QueryInit, QueryTypeOK
<1>4. review = "none"
  BY DEF QueryInit, DeviceInit, Init
<1>5. QED
  BY <1>3, <1>4 DEF QueryInit, NoResult, QInv, ReviewOwned, Calm, AddressSoFar,
                    ApprovedWaits, KeysOfThisCall, ReturnsApprovedAddress

\* A new call.
LEMMA StartQuery ==
    ASSUME QueryIInv, NEW c \in Calls, Start(c)
    PROVE  QInv'
<1>1. /\ call = "none" /\ call' = c /\ link' = "sent"
      /\ approved' = Zero /\ phrases' = {deviceSeed} /\ damaged' = OnCutSlot
      /\ result' = NoResult
      /\ UNCHANGED vars /\ got' = got
  BY DEF Start
<1>2. got = <<>>
  BY <1>1 DEF QueryIInv, QInv, Calm
<1>3. Zero \in K!Material /\ deviceSeed \in Seeds /\ OnCutSlot \in BOOLEAN
  BY MaterialRead DEF QueryIInv, DInv, KP!IInv, KP!StoreTypeOK, OnCutSlot
<1>4. QueryTypeOK'
  <2>1. got' \in Seq([part : Parts, key : K!Material'])
    BY <1>1, <1>2
  <2>2. Len(got') < Len(Commands(call'))
    BY <1>1, <1>2, CallLengths
  <2>3. QED
    BY <1>1, <1>3, <2>1, <2>2, CallLengths, MaterialIsConstant DEF QueryTypeOK
<1>5. ReviewOwned'
  BY <1>1 DEF QueryIInv, QInv, ReviewOwned, vars, dvars, screens
<1>6. Calm'
  <2>1. ~damaged' => ~OnCutSlot
    BY <1>1, Zenon
  <2>2. UNCHANGED <<OnCutSlot, deviceSeed>>
    BY <1>1, SlotKept
  <2>3. call' # "none"
    BY <1>1, CallLengths
  <2>4. QED
    BY <1>1, <2>1, <2>2, <2>3 DEF Calm
<1>7. AddressSoFar'
  BY <1>1, <1>2 DEF AddressSoFar
<1>8. QED
  BY <1>1, <1>4, <1>5, <1>6, <1>7
     DEF QInv, ApprovedWaits, NoResult, KeysOfThisCall, ReturnsApprovedAddress

\* A command is taken.
LEMMA DeliverQuery ==
    ASSUME QueryIInv, Deliver
    PROVE  QInv'
<1> DEFINE req == Commands(call)[Len(got) + 1]
<1>1. /\ link = "sent" /\ link' = "taken"
      /\ pc = "loop" /\ handleApdu(req)
      /\ UNCHANGED kvars
      /\ UNCHANGED <<call, got, approved, phrases, damaged, result>>
  BY DEF Deliver, Command
<1>2. call \in Calls /\ Len(got) \in Nat /\ Len(got) < Len(Commands(call))
  BY <1>1 DEF QueryIInv, QInv, QueryTypeOK
<1>3. /\ req.ins \in {"GET_VERSION", "GET_ADDR", "GET_PK"}
      /\ req.ins = "GET_ADDR" /\ req.p1 # 0 => call = "showAddress"
      /\ call = "showAddress" => req.ins = "GET_ADDR" /\ req.p1 # 0
      /\ call = "getAddress" =>
            /\ Len(got) \in 0..2
            /\ Len(got) = 0 => req.ins = "GET_ADDR"
            /\ Len(got) = 1 => req.ins = "GET_PK" /\ req.p2 = 0
            /\ Len(got) = 2 => req.ins = "GET_PK" /\ req.p2 = 1
  <2> DEFINE n == Len(got)
  <2>1. n \in Nat /\ n < Len(Commands(call)) /\ req = Commands(call)[n + 1]
    BY <1>2
  <2> HIDE DEF n, req
  <2>2. QED
    BY <1>2, <2>1, NextCommand DEF n
<1>4. review = "none"
  BY <1>1 DEF QueryIInv, DInv, IInv, OneReplyPending, handleApdu
<1> HIDE DEF req
<1>5. /\ device_initialized' = device_initialized
      /\ review' \in {"none", "address"}
      /\ review' = "address" =>
            /\ req.ins = "GET_ADDR" /\ req.p1 # 0
            /\ reply'.sw # "OK"
      /\ reply'.sw = "OK" =>
            /\ req.ins = "GET_ADDR" => reply'.part = "address" /\ req.p1 = 0
            /\ req.ins = "GET_PK" /\ req.p2 = 0 => reply'.part = "pk0"
            /\ req.ins = "GET_PK" /\ req.p2 = 1 => reply'.part = "pk1"
  BY <1>1, <1>3, <1>4, QueryAnswered
<1>6. QueryTypeOK' /\ KeysOfThisCall' /\ ReturnsApprovedAddress'
  BY <1>1, <1>2, MaterialIsConstant, CallLengths
     DEF QueryIInv, QInv, QueryTypeOK, KeysOfThisCall, ReturnsApprovedAddress
<1>7. ReviewOwned' /\ Calm'
  BY <1>1, <1>3, <1>5 DEF QueryIInv, QInv, ReviewOwned, Calm, OnCutSlot, kvars
<1>8. AddressSoFar'
  <2> SUFFICES ASSUME call = "getAddress" PROVE AddressSoFar'
    BY <1>1 DEF AddressSoFar
  <2>1. ~damaged => \A i \in 1..Len(got) : PartInPlace(i, got[i])
    BY DEF QueryIInv, QInv, AddressSoFar
  <2>2. reply'.sw = "OK" => reply'.part = AddressParts[Len(got) + 1]
    <3>1. CASE Len(got) = 0
      BY <1>3, <1>5, <3>1 DEF AddressParts
    <3>2. CASE Len(got) = 1
      BY <1>3, <1>5, <3>2 DEF AddressParts
    <3>3. CASE Len(got) = 2
      BY <1>3, <1>5, <3>3 DEF AddressParts
    <3>4. QED
      BY <1>3, <3>1, <3>2, <3>3
  <2>3. AddressParts' = AddressParts
    BY DEF AddressParts
  <2>4. QED
    BY <1>1, <2>1, <2>2, <2>3 DEF AddressSoFar, PartInPlace
<1>9. ApprovedWaits'
  BY <1>1, <1>3, <1>5 DEF ApprovedWaits
<1>10. QED
  BY <1>6, <1>7, <1>8, <1>9 DEF QInv

\* A call that returns leaves nothing behind but its result.
LEMMA QueryReturned ==
    ASSUME QueryIInv, UNCHANGED vars, NEW ok \in BOOLEAN, NEW as,
           Returns(ok, as),
           ok /\ call = "getAddress" /\ ~damaged =>
               \E k, k0, k1 \in phrases :
                   as = <<[part |-> "address", key |-> k],
                          [part |-> "pk0", key |-> k0],
                          [part |-> "pk1", key |-> k1]>>,
           ok /\ call = "showAddress" =>
               as = <<[part |-> "address", key |-> approved]>>
    PROVE  QInv'
<1>1. Zero \in K!Material
  BY MaterialRead DEF QueryIInv, DInv, KP!IInv
<1>2. QueryTypeOK'
  <2>1. got' \in Seq([part : Parts, key : K!Material'])
    BY DEF Returns
  <2>2. QED
    BY <1>1, <2>1, MaterialIsConstant DEF Returns, QueryTypeOK
<1>3. review' # "txn"
  BY DEF QueryIInv, QInv, ReviewOwned, vars, dvars, screens
<1>4. KeysOfThisCall'
  BY DEF Returns, KeysOfThisCall
<1>5. ReturnsApprovedAddress'
  BY DEF Returns, ReturnsApprovedAddress
<1>6. QED
  BY <1>2, <1>3, <1>4, <1>5
     DEF Returns, QInv, ReviewOwned, Calm, AddressSoFar, ApprovedWaits

\* The answers of a call with one more.
LEMMA OneMore ==
    ASSUME NEW T, NEW s \in Seq(T), NEW e \in T
    PROVE  /\ Append(s, e) \in Seq(T)
           /\ Len(Append(s, e)) = Len(s) + 1
           /\ \A i \in 1..Len(s) : Append(s, e)[i] = s[i]
           /\ Append(s, e)[Len(s) + 1] = e
OBVIOUS

\* What waits for getAddress() is of the present phrase and in its place.
LEMMA AddressWaits ==
    ASSUME QueryIInv, call = "getAddress", ~damaged, link = "taken",
           reply.sw = "OK"
    PROVE  /\ PartInPlace(Len(got) + 1,
                           [part |-> reply.part, key |-> G_io_apdu_buffer])
           /\ Len(got) \in 0..2
<1> DEFINE n == Len(got)
           m == Len(Commands(call))
<1>1. reply.part = AddressParts[n + 1]
  BY DEF QueryIInv, QInv, AddressSoFar
<1>2. n \in 0..2
  <2>1. call \in Calls /\ n \in Nat /\ n < m
    BY DEF QueryIInv, QInv, QueryTypeOK
  <2>2. m = 3
    BY <2>1, CallLengths
  <2> HIDE DEF n, m
  <2>3. QED
    BY <2>1, <2>2
<1>3. reply.part \in {"address", "pk0", "pk1"}
  <2> HIDE DEF n
  <2>1. n = 0 \/ n = 1 \/ n = 2
    BY <1>2
  <2>2. AddressParts[1] = "address" /\ AddressParts[2] = "pk0" /\ AddressParts[3] = "pk1"
    BY DEF AddressParts
  <2>3. QED
    BY <1>1, <2>1, <2>2
<1>4. deviceSeed \in phrases /\ slot_in_use \notin cut
  BY <1>3 DEF QueryIInv, QInv, Calm, OnCutSlot, DInv, ServedOnly
<1>5. G_io_apdu_buffer = deviceSeed
  BY <1>3, <1>4 DEF QueryIInv, DInv, OwnKeyGiven
<1>6. QED
  BY <1>1, <1>2, <1>4, <1>5 DEF PartInPlace

\* An answer, or an error in its place, takes the call one step further.
LEMMA AnswerQuery ==
    ASSUME QueryIInv, link \in {"sent", "taken"},
           NEW code, NEW a \in [part : Parts, key : K!Material],
           HandleAnswer(code, a),
           code = "OK" =>
               /\ link = "taken" /\ review = "none" /\ reply.sw = "OK"
               /\ a = [part |-> reply.part, key |-> G_io_apdu_buffer]
    PROVE  QInv'
<1>1. /\ call \in Calls /\ call # "none"
      /\ got \in Seq([part : Parts, key : K!Material])
      /\ Len(got) \in Nat /\ Len(got) < Len(Commands(call))
      /\ Len(Commands(call)) \in Nat
      /\ call = "getAddress" => Len(Commands(call)) = 3
      /\ call = "showAddress" => Len(Commands(call)) = 1
  <2>1. /\ call \in Calls
        /\ got \in Seq([part : Parts, key : K!Material])
        /\ Len(got) < Len(Commands(call))
    BY DEF QueryIInv, QInv, QueryTypeOK
  <2>2. QED
    BY <2>1, CallLengths
<1>2. UNCHANGED vars
  BY DEF HandleAnswer
<1>3. /\ Append(got, a) \in Seq([part : Parts, key : K!Material])
      /\ Len(Append(got, a)) = Len(got) + 1
      /\ \A i \in 1..Len(got) : Append(got, a)[i] = got[i]
      /\ Append(got, a)[Len(got) + 1] = a
  BY <1>1, OneMore
<1>4. ASSUME code = "OK", call = "getAddress", ~damaged
      PROVE  /\ Len(got) \in 0..2
             /\ \A i \in 1..(Len(got) + 1) : PartInPlace(i, Append(got, a)[i])
  <2>1. PartInPlace(Len(got) + 1, a) /\ Len(got) \in 0..2
    BY <1>4, AddressWaits
  <2>2. \A i \in 1..Len(got) : PartInPlace(i, got[i])
    BY <1>4 DEF QueryIInv, QInv, AddressSoFar
  <2>3. ASSUME NEW i \in 1..(Len(got) + 1)
        PROVE  PartInPlace(i, Append(got, a)[i])
    <3>1. CASE i \in 1..Len(got)
      BY <1>3, <2>2, <3>1
    <3>2. CASE i = Len(got) + 1
      BY <1>3, <2>1, <3>2
    <3>3. QED
      BY <1>1, <3>1, <3>2
  <2>4. QED
    BY <2>1, <2>3
<1>5. CASE ~GoesOn(code) /\ Returns(FALSE, <<>>)
  BY <1>2, <1>5, QueryReturned
<1>6. CASE GoesOn(code) /\ IsLast /\ Returns(TRUE, Append(got, a))
  <2>1. ASSUME call = "getAddress", ~damaged
        PROVE  \E k, k0, k1 \in phrases :
                   Append(got, a) = <<[part |-> "address", key |-> k],
                                      [part |-> "pk0", key |-> k0],
                                      [part |-> "pk1", key |-> k1]>>
    <3> DEFINE n == Len(got)
               s == Append(got, a)
    <3>1. code = "OK" /\ n + 1 = 3 /\ n \in Nat
      BY <1>1, <1>6, <2>1 DEF GoesOn, IsLast
    <3>2. \A i \in 1..(n + 1) : PartInPlace(i, s[i])
      BY <1>4, <2>1, <3>1
    <3>3. s \in Seq([part : Parts, key : K!Material]) /\ Len(s) = n + 1
      BY <1>3
    <3> HIDE DEF n, s
    <3>4. /\ PartInPlace(1, s[1]) /\ PartInPlace(2, s[2]) /\ PartInPlace(3, s[3])
          /\ Len(s) = 3
      BY <3>1, <3>2, <3>3
    <3>5. s = <<s[1], s[2], s[3]>>
      <4>1. s \in Seq([part : Parts, key : K!Material]) /\ Len(s) = 3
        BY <3>3, <3>4
      <4>2. QED
        BY <4>1
    <3>6. PICK k, k0, k1 \in phrases :
               /\ s[1] = [part |-> AddressParts[1], key |-> k]
               /\ s[2] = [part |-> AddressParts[2], key |-> k0]
               /\ s[3] = [part |-> AddressParts[3], key |-> k1]
      BY <3>4 DEF PartInPlace
    <3>7. s = <<[part |-> "address", key |-> k], [part |-> "pk0", key |-> k0],
                [part |-> "pk1", key |-> k1]>>
      BY <3>5, <3>6 DEF AddressParts
    <3>8. QED
      BY <3>7 DEF s
  <2>2. ASSUME call = "showAddress"
        PROVE  Append(got, a) = <<[part |-> "address", key |-> approved]>>
    <3>1. call # "digest"
      BY <2>2
    <3>2. code = "OK"
      BY <1>6, <3>1 DEF GoesOn
    <3>3. Len(got) + 1 = 1 /\ Len(got) \in Nat
      BY <1>1, <1>6, <2>2 DEF IsLast
    <3>4. Len(got) = 0
      BY <3>3
    <3>5. a = [part |-> "address", key |-> approved]
      BY <2>2, <3>2, <3>4 DEF QueryIInv, QInv, ApprovedWaits
    <3>6. got = <<>>
      BY <1>1, <3>4
    <3>7. QED
      BY <3>5, <3>6
  <2>3. QED
    BY <1>2, <1>6, <2>1, <2>2, QueryReturned
<1>7. CASE /\ GoesOn(code) /\ ~IsLast
           /\ got' = Append(got, a)
           /\ link' = "sent"
           /\ UNCHANGED <<call, approved, phrases, damaged, result>>
  <2>1. QueryTypeOK'
    <3>1. Len(got') < Len(Commands(call'))
      BY <1>1, <1>3, <1>7 DEF IsLast
    <3>2. QED
      BY <1>1, <1>3, <1>7, <3>1, MaterialIsConstant
         DEF QueryIInv, QInv, QueryTypeOK
  <2>2. ReviewOwned' /\ Calm' /\ ApprovedWaits'
    BY <1>1, <1>2, <1>7, SlotKept
       DEF QueryIInv, QInv, ReviewOwned, Calm, ApprovedWaits, vars, dvars,
           kvars, screens
  <2>3. AddressSoFar'
    <3> SUFFICES ASSUME call = "getAddress", ~damaged
                 PROVE  \A i \in 1..Len(got') : PartInPlace(i, got'[i])
      <4>1. AddressParts' = AddressParts
        BY DEF AddressParts
      <4>2. QED
        BY <1>7, <4>1 DEF AddressSoFar, PartInPlace
    <3>1. code = "OK"
      BY <1>7 DEF GoesOn
    <3>2. QED
      BY <1>3, <1>4, <1>7, <3>1
  <2>4. KeysOfThisCall' /\ ReturnsApprovedAddress'
    BY <1>7 DEF QueryIInv, QInv, KeysOfThisCall, ReturnsApprovedAddress
  <2>5. QED
    BY <2>1, <2>2, <2>3, <2>4 DEF QInv
<1>8. QED
  BY <1>5, <1>6, <1>7 DEF HandleAnswer

\* The device moves on its own.
LEMMA DeviceQuery ==
    ASSUME QueryIInv, DeviceStep, deviceSeed' \in Seeds
    PROVE  QInv'
<1>1. UNCHANGED <<call, got, link, result>>
  BY DEF DeviceStep
<1>2. \/ /\ review' = review /\ reply' = reply
         /\ G_io_apdu_buffer' = G_io_apdu_buffer
      \/ review' = "none" /\ reply'.sw # "OK"
      \/ /\ review # "none" /\ review' = "none"
         /\ reply'.sw = "OK" /\ review = "address" => ReplyAddress
  <2>1. CASE Decision
    <3>1. review # "none" /\ review' = "none"
      BY <2>1 DEF Decision, Sign, ReplyAddress, Declined, app_sign,
                  app_sign_fails, app_reject, app_reply_error,
                  app_reply_address, ReviewEnds
    <3>2. reply'.sw = "OK" /\ review = "address" => ReplyAddress
      BY <2>1 DEF Decision, Sign, Declined, app_sign, app_sign_fails,
                  app_reject, app_reply_error, Reply
    <3>3. QED
      BY <3>1, <3>2
  <2>2. CASE SetUp \/ PowerOn \/ Lock
    BY <2>2 DEF SetUp, PowerOn, Lock, TogglePin, screens
  <2>3. CASE PowerOff
    BY <2>3 DEF PowerOff, Restart, Reply
  <2>4. QED
    BY <2>1, <2>2, <2>3 DEF DeviceStep
<1>3. approved' = IF call # "none" /\ review = "address" /\ reply'.sw = "OK"
                  THEN G_io_apdu_buffer ELSE approved
  BY DEF DeviceStep, addr_getItem
<1>4. /\ damaged' \in BOOLEAN
      /\ call # "none" /\ ~damaged' => ~damaged /\ ~OnCutSlot'
      /\ phrases' \subseteq phrases \cup {deviceSeed'}
      /\ call # "none" => phrases \subseteq phrases' /\ deviceSeed' \in phrases'
  BY Zenon DEF DeviceStep
<1>5. QueryTypeOK'
  BY <1>1, <1>3, <1>4, MaterialIsConstant
     DEF QueryIInv, QInv, QueryTypeOK, Made, KP!StoreTypeOK
<1>6. ReviewOwned'
  BY <1>1, <1>2 DEF QueryIInv, QInv, ReviewOwned
<1>7. Calm'
  BY <1>1, <1>4 DEF QueryIInv, QInv, Calm
<1>8. AddressSoFar'
  <2> SUFFICES ASSUME call = "getAddress" PROVE AddressSoFar'
    BY <1>1 DEF AddressSoFar
  <2>1. AddressParts' = AddressParts
    BY DEF AddressParts
  <2>2. call # "none"
    BY CallLengths DEF QueryIInv, QInv, QueryTypeOK
  <2>3. ~damaged' =>
            \A i \in 1..Len(got) :
                \E k \in phrases' : got[i] = [part |-> AddressParts[i], key |-> k]
    BY <1>4, <2>2 DEF QueryIInv, QInv, AddressSoFar, PartInPlace
  <2>4. link = "taken" /\ reply'.sw = "OK" =>
            reply'.part = AddressParts[Len(got) + 1]
    BY <1>2 DEF QueryIInv, QInv, AddressSoFar, ReviewOwned
  <2>5. QED
    BY <1>1, <2>1, <2>3, <2>4 DEF AddressSoFar, PartInPlace
<1>9. ApprovedWaits'
  <2> SUFFICES ASSUME call = "showAddress", link = "taken", reply'.sw = "OK"
               PROVE  reply'.part = "address" /\ G_io_apdu_buffer' = approved'
    BY <1>1 DEF ApprovedWaits
  <2>1. review # "txn"
    BY DEF QueryIInv, QInv, ReviewOwned
  <2>2. CASE review = "address" /\ ReplyAddress
    BY <1>3, <2>2 DEF ReplyAddress, app_reply_address, Reply
  <2>3. CASE /\ review' = review /\ reply' = reply
             /\ G_io_apdu_buffer' = G_io_apdu_buffer
    BY <1>3, <2>3 DEF QueryIInv, QInv, ApprovedWaits
  <2>4. QED
    BY <1>2, <2>1, <2>2, <2>3 DEF QueryIInv, DInv, IInv, HandlerTypeOK
<1>10. KeysOfThisCall' /\ ReturnsApprovedAddress'
  BY <1>1 DEF QueryIInv, QInv, KeysOfThisCall, ReturnsApprovedAddress
<1>11. QED
  BY <1>5, <1>6, <1>7, <1>8, <1>9, <1>10 DEF QInv

\* Every step keeps the invariant.
LEMMA NextQueryIInv ==
    ASSUME QueryIInv, [QueryNext]_allvars
    PROVE  QueryIInv'
<1>1. QueryTypeOK /\ DInv /\ Made /\ KP!StoreTypeOK
  BY DEF QueryIInv, QInv, DInv, KP!IInv
<1>2. [DeviceNext]_vars
  BY <1>1, QueryStepIsDeviceStep
<1>3. DInv' /\ Made'
  BY <1>1, <1>2, DeviceNextInv, NextMade
<1>4. QInv'
  <2>1. CASE \E c \in Calls : Start(c)
    BY <2>1, StartQuery
  <2>2. CASE Deliver
    BY <2>2, DeliverQuery
  <2>3. CASE Respond
    <3> DEFINE a == [part |-> reply.part, key |-> G_io_apdu_buffer]
    <3>1. link = "taken" /\ ~awaiting /\ HandleAnswer(reply.sw, a)
      BY <2>3 DEF Respond
    <3>2. review = "none" /\ reply.part \in Parts
      BY <1>1, <3>1 DEF DInv, IInv, OneReplyPending, HandlerTypeOK
    <3>3. a \in [part : Parts, key : K!Material]
      BY <1>1, <3>2 DEF Made
    <3>4. QED
      BY <3>1, <3>2, <3>3, AnswerQuery
  <2>4. CASE TransportFails
    <3>1. Zero \in K!Material
      BY <1>1, MaterialRead
    <3>2. NoAnswer \in [part : Parts, key : K!Material]
      BY <3>1 DEF NoAnswer, Parts
    <3>3. link \in {"sent", "taken"} /\ HandleAnswer("ffff", NoAnswer)
      BY <2>4 DEF TransportFails
    <3>4. QED
      BY <3>2, <3>3, AnswerQuery
  <2>5. CASE DeviceStep
    <3>1. deviceSeed' \in Seeds
      BY <1>3 DEF DInv, KP!IInv, KP!StoreTypeOK
    <3>2. QED
      BY <2>5, <3>1, DeviceQuery
  <2>6. CASE UNCHANGED allvars
    <3>1. UNCHANGED <<vars, call, got, link, approved, phrases, damaged, result>>
      BY <2>6 DEF allvars, qvars
    <3>2. UNCHANGED <<review, reply, OnCutSlot, deviceSeed, G_io_apdu_buffer>>
      BY <3>1, SlotKept DEF vars, dvars, kvars, screens
    <3>3. QueryTypeOK'
      BY <1>1, <3>1, MaterialIsConstant DEF QueryTypeOK
    <3>4. QED
      BY <3>1, <3>2, <3>3
         DEF QueryIInv, QInv, ReviewOwned, Calm, AddressSoFar, AddressParts,
             PartInPlace, ApprovedWaits, KeysOfThisCall, ReturnsApprovedAddress
  <2>7. QED
    BY <2>1, <2>2, <2>3, <2>4, <2>5, <2>6 DEF QueryNext
<1>5. QED
  BY <1>3, <1>4 DEF QueryIInv

\* The invariant holds in every reachable state of client and device.
THEOREM QueryInvariance == QuerySpec => []QueryIInv
<1>1. QueryInit => QueryIInv
  <2> SUFFICES ASSUME QueryInit PROVE QueryIInv
    OBVIOUS
  <2>1. DeviceInit /\ DInv /\ KP!StoreTypeOK
    BY DeviceInitInv DEF QueryInit, DInv, KP!IInv
  <2>2. Made
    BY <2>1, MaterialRead DEF DeviceInit, Made, NotSigned
  <2>3. QED
    BY <2>1, <2>2, InitQuery DEF QueryIInv
<1>2. QueryIInv /\ [QueryNext]_allvars => QueryIInv'
  BY NextQueryIInv
<1>3. QED
  BY <1>1, <1>2, PTL DEF QuerySpec

\* Every variable of a call keeps its type: no answer is taken for a command
\* that was not sent.
THEOREM QueryTypeCorrect == QuerySpec => []QueryTypeOK
<1>1. QueryIInv => QueryTypeOK
  BY DEF QueryIInv, QInv
<1>2. QED
  BY <1>1, QueryInvariance, PTL

\* The address and the two halves of the owner getAddress() returns are of one
\* key, in their places.
THEOREM AnswersAreOfThisCall == QuerySpec => []KeysOfThisCall
<1>1. QueryIInv => KeysOfThisCall
  BY DEF QueryIInv, QInv
<1>2. QED
  BY <1>1, QueryInvariance, PTL

\* The address showAddress() returns was approved during the call.
THEOREM ApprovedIsReturned == QuerySpec => []ReturnsApprovedAddress
<1>1. QueryIInv => ReturnsApprovedAddress
  BY DEF QueryIInv, QInv
<1>2. QED
  BY <1>1, QueryInvariance, PTL

\* The client is one of the hosts Device is specified for, so that every theorem
\* about DeviceSpec holds of it.
THEOREM QueryIsHost == QuerySpec => DeviceSpec
<1>1. QueryInit => DeviceInit
  BY DEF QueryInit
<1>2. QueryIInv /\ [QueryNext]_allvars => [DeviceNext]_vars
  BY QueryStepIsDeviceStep DEF QueryIInv, QInv
<1>3. QED
  BY <1>1, <1>2, QueryInvariance, PTL DEF QuerySpec, DeviceSpec
=============================================================================
