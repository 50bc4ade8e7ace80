---------------------------- MODULE PartsProofs ----------------------------
(***************************************************************************)
(* What holds of the parts that MCParts sets side by side for any number   *)
(* of requests, devices, codes, keys, processes, windows and changes.      *)
(* Each part has an inductive invariant of its own variables, which is     *)
(* kept while another part moves.                                          *)
(***************************************************************************)
EXTENDS MCParts, FiniteSetTheorems, WellFoundedInduction, TLAPS

LEMMA PartStep ==
  ASSUME [Next]_vars
  PROVE  /\ Factor!FactorNext \/ UNCHANGED factorVars
         /\ Passkey!PasskeyNext \/ UNCHANGED passkeyVars
         /\ Device!DeviceNext \/ UNCHANGED deviceVars
         /\ Rate!RateNext \/ UNCHANGED rateVars
         /\ Quota!QuotaNext \/ UNCHANGED quotaVars
         /\ Deploy!DeployNext \/ UNCHANGED deployVars
         /\ Migration!MigrationsNext \/ UNCHANGED migrationVars
         /\ Ops!OpsNext \/ UNCHANGED opsVars
BY DEF Next, vars, accountVars, operatorVars

\* One element more or fewer.
LEMMA OneMoreOrLess ==
  ASSUME NEW S, IsFiniteSet(S), NEW x
  PROVE  /\ Cardinality(S) \in Nat
         /\ IsFiniteSet(S \cup {x}) /\ Cardinality(S \cup {x}) \in Nat
         /\ Cardinality(S \cup {x}) <= Cardinality(S) + 1
         /\ IsFiniteSet(S \ {x}) /\ Cardinality(S \ {x}) \in Nat
         /\ Cardinality(S \ {x}) <= Cardinality(S)
         /\ x \in S => Cardinality(S \ {x}) = Cardinality(S) - 1
<1>1. /\ Cardinality(S) \in Nat
      /\ IsFiniteSet(S \cup {x}) /\ Cardinality(S \cup {x}) \in Nat
      /\ IsFiniteSet(S \ {x}) /\ Cardinality(S \ {x}) \in Nat
  BY FS_AddElement, FS_RemoveElement, FS_CardinalityType
<1>2. /\ Cardinality(S \cup {x}) = IF x \in S THEN Cardinality(S) ELSE Cardinality(S) + 1
      /\ Cardinality(S \ {x}) = IF x \in S THEN Cardinality(S) - 1 ELSE Cardinality(S)
  BY FS_AddElement, FS_RemoveElement
<1> QED
  BY <1>1, <1>2

\* An instance counts as this module does.
LEMMA SameCardinality ==
  ASSUME NEW S
  PROVE  Device!Cardinality(S) = Cardinality(S) /\ Factor!Cardinality(S) = Cardinality(S)
BY DEF Device!Cardinality, Factor!Cardinality, Cardinality

-----------------------------------------------------------------------------
(***************************************************************************)
(* Devices                                                                 *)
(***************************************************************************)
DevicePC == {"find", "count", "create", "update", "check", "revoke", "record"}
DeviceCalls == [pc : DevicePC, uuid : Uuids]

ActiveDevices == {d \in Uuids : device[d] = "active"}

\* The requests that have found room for one more.
Creators == {a \in Asks : ask[a].pc = "create"}

\* Every request that has found room counts as a device already, except that the
\* last to look found at least one place left.
Room ==
  /\ IsFiniteSet(ActiveDevices)
  /\ Cardinality(ActiveDevices) + Cardinality(Creators) < MaxDevices + Cardinality(Asks)

Revocations ==
  \A d \in Uuids :
    device[d] = "revoked" =>
      d \in recorded \cup cut \/ \E a \in Asks : ask[a].pc = "record" /\ ask[a].uuid = d

DeviceInv == Device!DeviceTypeOK /\ Room /\ Revocations

LEMMA AskMoves ==
  ASSUME Device!DeviceTypeOK, NEW a \in Asks
  PROVE  /\ ask \in [Asks -> {Device!Off} \cup DeviceCalls]
         /\ \A pc \in DevicePC, d \in Uuids :
              ask' = [ask EXCEPT ![a] = [pc |-> pc, uuid |-> d]] =>
                /\ ask' \in [Asks -> {Device!Off} \cup DeviceCalls]
                /\ ask'[a].pc = pc /\ ask'[a].uuid = d
                /\ \A b \in Asks \ {a} : ask'[b] = ask[b]
         /\ ask[a].pc # "idle" =>
              /\ ask[a].uuid \in Uuids
              /\ \A pc \in DevicePC : Device!Move(a, pc) =>
                   /\ ask' \in [Asks -> {Device!Off} \cup DeviceCalls]
                   /\ ask'[a].pc = pc /\ ask'[a].uuid = ask[a].uuid
                   /\ \A b \in Asks \ {a} : ask'[b] = ask[b]
         /\ Device!Leave(a) =>
              /\ ask' \in [Asks -> {Device!Off} \cup DeviceCalls]
              /\ ask'[a].pc = "idle"
              /\ \A b \in Asks \ {a} : ask'[b] = ask[b]
<1>1. ask \in [Asks -> {Device!Off} \cup DeviceCalls]
  BY DEF Device!DeviceTypeOK, DeviceCalls, DevicePC
<1>2. ASSUME NEW pc \in DevicePC, NEW d \in Uuids, ask' = [ask EXCEPT ![a] = [pc |-> pc, uuid |-> d]]
      PROVE  /\ ask' \in [Asks -> {Device!Off} \cup DeviceCalls]
             /\ ask'[a].pc = pc /\ ask'[a].uuid = d
             /\ \A b \in Asks \ {a} : ask'[b] = ask[b]
  BY <1>1, <1>2 DEF DeviceCalls
<1>3. ASSUME ask[a].pc # "idle"
      PROVE  ask[a].uuid \in Uuids /\ ask[a] \in DeviceCalls
  BY <1>1, <1>3 DEF DeviceCalls, Device!Off
<1>4. ASSUME ask[a].pc # "idle", NEW pc \in DevicePC, Device!Move(a, pc)
      PROVE  /\ ask' \in [Asks -> {Device!Off} \cup DeviceCalls]
             /\ ask'[a].pc = pc /\ ask'[a].uuid = ask[a].uuid
             /\ \A b \in Asks \ {a} : ask'[b] = ask[b]
  <2>1. [ask[a] EXCEPT !.pc = pc] \in DeviceCalls
    BY <1>3, <1>4 DEF DeviceCalls
  <2>2. ask' = [ask EXCEPT ![a] = [ask[a] EXCEPT !.pc = pc]]
    BY <1>1, <1>4 DEF Device!Move
  <2> QED
    BY <1>1, <1>3, <1>4, <2>1, <2>2 DEF DeviceCalls
<1>5. ASSUME Device!Leave(a)
      PROVE  /\ ask' \in [Asks -> {Device!Off} \cup DeviceCalls]
             /\ ask'[a].pc = "idle"
             /\ \A b \in Asks \ {a} : ask'[b] = ask[b]
  BY <1>1, <1>5 DEF Device!Leave, Device!Off
<1> QED
  BY <1>1, <1>2, <1>3, <1>4, <1>5

\* A request that does not come to its insert gives no room away.
LEMMA CreatorsMove ==
  ASSUME IsFiniteSet(Asks), NEW a \in Asks, \A b \in Asks \ {a} : ask'[b] = ask[b]
  PROVE  /\ IsFiniteSet(Creators) /\ Cardinality(Creators) \in Nat /\ Cardinality(Creators') \in Nat
         /\ Cardinality(Creators) <= Cardinality(Asks) /\ Cardinality(Creators') <= Cardinality(Asks)
         /\ ask'[a].pc # "create" => Cardinality(Creators') <= Cardinality(Creators)
         /\ ask'[a].pc # "create" /\ ask[a].pc = "create" =>
              Cardinality(Creators') = Cardinality(Creators) - 1
<1>1. Creators \in SUBSET Asks /\ Creators' \in SUBSET Asks
  BY DEF Creators
<1>2. IsFiniteSet(Creators) /\ IsFiniteSet(Creators')
  BY <1>1, FS_Subset
<1>3. ask'[a].pc # "create" => Creators' = Creators \ {a}
  BY DEF Creators
<1>4. ask[a].pc = "create" => a \in Creators
  BY DEF Creators
<1>5. /\ Cardinality(Creators) \in Nat /\ Cardinality(Creators') \in Nat
      /\ Cardinality(Creators) <= Cardinality(Asks) /\ Cardinality(Creators') <= Cardinality(Asks)
  BY <1>1, <1>2, FS_Subset, FS_CardinalityType
<1>6. ask'[a].pc # "create" => Cardinality(Creators') = Cardinality(Creators \ {a})
  BY <1>3
<1> QED
  BY <1>2, <1>4, <1>5, <1>6, OneMoreOrLess

LEMMA DeviceStep ==
  ASSUME DeviceInv, Device!DeviceNext
  PROVE  DeviceInv'
<1>1. Device!DeviceTypeOK /\ Room /\ Revocations
  BY DEF DeviceInv
<1>2. /\ IsFiniteSet(Asks) /\ Cardinality(Asks) \in Nat /\ MaxDevices \in Nat
      /\ IsFiniteSet(ActiveDevices) /\ Cardinality(ActiveDevices) \in Nat
  BY <1>1, PartsAssumption, FS_CardinalityType DEF Room
<1> DEFINE Places(n) == Cardinality(ActiveDevices') + n < MaxDevices + Cardinality(Asks)
<1> USE DEF Device!Doing, DevicePC
<1>3. ASSUME NEW a \in Asks, NEW d \in Uuids, Device!RequestDeviceToken(a, d) \/ Device!RevokeDevice(a, d)
      PROVE  DeviceInv'
  <2>1. \E pc \in {"find", "check"} : ask' = [ask EXCEPT ![a] = [pc |-> pc, uuid |-> d]]
    BY <1>3 DEF Device!RequestDeviceToken, Device!RevokeDevice, Device!Open
  <2>2. UNCHANGED <<device, token, recorded, cut>> /\ ask[a].pc = "idle"
    BY <1>3 DEF Device!RequestDeviceToken, Device!RevokeDevice, Device!Open
  <2>3. /\ ask' \in [Asks -> {Device!Off} \cup DeviceCalls]
        /\ ask'[a].pc \in {"find", "check"}
        /\ \A b \in Asks \ {a} : ask'[b] = ask[b]
    BY <1>1, <2>1, AskMoves
  <2>4. Device!DeviceTypeOK'
    BY <1>1, <2>2, <2>3 DEF Device!DeviceTypeOK, DeviceCalls
  <2>5. ActiveDevices' = ActiveDevices
    BY <2>2 DEF ActiveDevices
  <2>6. Room'
    BY <1>1, <1>2, <2>3, <2>5, CreatorsMove DEF Room
  <2>7. Revocations'
    BY <1>1, <2>2, <2>3 DEF Revocations
  <2> QED
    BY <2>4, <2>6, <2>7 DEF DeviceInv
<1>4. ASSUME NEW a \in Asks, Device!GetByUserAndUUID(a) \/ Device!CheckLimit(a) \/ Device!CheckActive(a)
      PROVE  DeviceInv'
  <2>1. UNCHANGED <<device, token, recorded, cut>> /\ ask[a].pc \in {"find", "count", "check"}
    BY <1>4 DEF Device!GetByUserAndUUID, Device!CheckLimit, Device!CheckActive
  <2>2. /\ \/ Device!Leave(a)
           \/ \E pc \in {"count", "update", "revoke"} : Device!Move(a, pc)
           \/ Device!Move(a, "create") /\ Device!BelowLimit
    <3>1. Device!State(a) \in {"none", "active", "revoked"}
      BY <1>1, <2>1, AskMoves DEF Device!State, Device!DeviceTypeOK
    <3> QED
      BY <1>4, <3>1 DEF Device!GetByUserAndUUID, Device!CheckLimit, Device!CheckActive
  <2>3. /\ ask' \in [Asks -> {Device!Off} \cup DeviceCalls]
        /\ ask'[a].pc \in {"idle", "count", "update", "revoke"} \/ (ask'[a].pc = "create" /\ Device!BelowLimit)
        /\ \A b \in Asks \ {a} : ask'[b] = ask[b]
    BY <1>1, <2>1, <2>2, AskMoves
  <2>4. Device!DeviceTypeOK'
    BY <1>1, <2>1, <2>3 DEF Device!DeviceTypeOK, DeviceCalls
  <2>5. ActiveDevices' = ActiveDevices
    BY <2>1 DEF ActiveDevices
  <2>6. Room'
    <3>1. CASE ask'[a].pc # "create"
      BY <1>1, <1>2, <2>3, <2>5, <3>1, CreatorsMove DEF Room
    <3>2. CASE Device!BelowLimit
      <4>1. Cardinality(ActiveDevices) < MaxDevices
        BY <3>2, SameCardinality DEF Device!BelowLimit, Device!CountActiveByUser, ActiveDevices
      <4>2. Cardinality(Creators') \in Nat /\ Cardinality(Creators') <= Cardinality(Asks)
        BY <1>2, <2>3, CreatorsMove
      <4> QED
        BY <1>2, <2>5, <4>1, <4>2 DEF Room
    <3> QED
      BY <2>3, <3>1, <3>2
  <2>7. Revocations'
    BY <1>1, <2>1, <2>3 DEF Revocations
  <2> QED
    BY <2>4, <2>6, <2>7 DEF DeviceInv
<1>5. ASSUME NEW a \in Asks, Device!CreateDevice(a)
      PROVE  DeviceInv'
  <2>1. /\ ask' \in [Asks -> {Device!Off} \cup DeviceCalls]
        /\ ask'[a].pc = "idle" /\ ask[a].pc = "create" /\ ask[a].uuid \in Uuids
        /\ \A b \in Asks \ {a} : ask'[b] = ask[b]
    BY <1>1, <1>5, AskMoves DEF Device!CreateDevice
  <2>2. /\ Cardinality(Creators') = Cardinality(Creators) - 1
        /\ Cardinality(Creators) \in Nat /\ Cardinality(Creators') \in Nat
    BY <1>2, <2>1, CreatorsMove
  <2>3. CASE Device!State(a) = "none"
    <3>1. device' = [device EXCEPT ![ask[a].uuid] = "active"] /\ token' = token \cup {ask[a].uuid}
          /\ UNCHANGED <<recorded, cut>>
      BY <1>5, <2>3 DEF Device!CreateDevice
    <3>2. Device!DeviceTypeOK'
      BY <1>1, <2>1, <3>1 DEF Device!DeviceTypeOK, DeviceCalls
    <3>3. ActiveDevices' = ActiveDevices \cup {ask[a].uuid}
      BY <1>1, <2>1, <3>1 DEF ActiveDevices, Device!DeviceTypeOK
    <3>4. IsFiniteSet(ActiveDevices') /\ Cardinality(ActiveDevices') <= Cardinality(ActiveDevices) + 1
          /\ Cardinality(ActiveDevices') \in Nat
      BY <1>2, <3>3, OneMoreOrLess
    <3>5. Room'
      BY <1>1, <1>2, <2>2, <3>4 DEF Room
    <3>6. Revocations'
      BY <1>1, <2>1, <3>1 DEF Revocations, Device!DeviceTypeOK
    <3> QED
      BY <3>2, <3>5, <3>6 DEF DeviceInv
  <2>4. CASE UNCHANGED <<device, token, recorded, cut>>
    <3>1. Device!DeviceTypeOK'
      BY <1>1, <2>1, <2>4 DEF Device!DeviceTypeOK, DeviceCalls
    <3>2. ActiveDevices' = ActiveDevices
      BY <2>4 DEF ActiveDevices
    <3>3. Room'
      BY <1>1, <1>2, <2>2, <3>2 DEF Room
    <3>4. Revocations'
      BY <1>1, <2>1, <2>4 DEF Revocations
    <3> QED
      BY <3>1, <3>3, <3>4 DEF DeviceInv
  <2> QED
    BY <1>5, <2>3, <2>4 DEF Device!CreateDevice
<1>6. ASSUME NEW a \in Asks, \/ Device!UpdateToken(a) \/ Device!Revoke(a)
                             \/ Device!RecordRevocation(a) \/ Device!Fail(a)
      PROVE  DeviceInv'
  <2>1. Device!Leave(a) \/ (Device!Move(a, "record") /\ ask[a].pc = "revoke")
    BY <1>6 DEF Device!UpdateToken, Device!Revoke, Device!RecordRevocation, Device!Fail
  <2>2. /\ ask[a].pc # "idle" /\ ask[a].uuid \in Uuids
        /\ ask' \in [Asks -> {Device!Off} \cup DeviceCalls]
        /\ \/ Device!Leave(a) /\ ask'[a].pc = "idle"
           \/ ask'[a].pc = "record" /\ ask'[a].uuid = ask[a].uuid /\ ask[a].pc = "revoke"
        /\ \A b \in Asks \ {a} : ask'[b] = ask[b]
    BY <1>1, <1>6, <2>1, AskMoves
       DEF Device!UpdateToken, Device!Revoke, Device!RecordRevocation, Device!Fail
  <2>3. /\ device' \in [Uuids -> {"none", "active", "revoked"}]
        /\ ActiveDevices' \in SUBSET ActiveDevices
    BY <1>1, <1>6, <2>2 DEF Device!DeviceTypeOK, ActiveDevices, Device!UpdateToken, Device!Revoke,
                            Device!RecordRevocation, Device!Fail
  <2>4. token' \subseteq Uuids /\ recorded' \subseteq Uuids /\ cut' \subseteq Uuids
    BY <1>1, <1>6, <2>2 DEF Device!DeviceTypeOK, Device!UpdateToken, Device!Revoke,
                            Device!RecordRevocation, Device!Fail
  <2>5. Device!DeviceTypeOK'
    BY <2>2, <2>3, <2>4 DEF Device!DeviceTypeOK, DeviceCalls
  <2>6. IsFiniteSet(ActiveDevices') /\ Cardinality(ActiveDevices') <= Cardinality(ActiveDevices)
        /\ Cardinality(ActiveDevices') \in Nat
    BY <1>2, <2>3, FS_Subset, FS_CardinalityType
  <2>7. Room'
    BY <1>1, <1>2, <2>2, <2>6, CreatorsMove DEF Room
  <2>8. CASE Device!UpdateToken(a)
    <3>1. Revocations'
      BY <1>1, <2>2, <2>8 DEF Device!UpdateToken, Revocations
    <3> QED
      BY <2>5, <2>7, <3>1 DEF DeviceInv
  <2>9. CASE Device!Revoke(a)
    <3>1. ask'[a].pc = "record" /\ ask'[a].uuid = ask[a].uuid
      BY <1>1, <2>2, <2>9, AskMoves DEF Device!Revoke
    <3>2. Revocations'
      BY <1>1, <2>2, <2>9, <3>1 DEF Device!Revoke, Revocations, Device!DeviceTypeOK
    <3> QED
      BY <2>5, <2>7, <3>2 DEF DeviceInv
  <2>10. CASE Device!RecordRevocation(a)
    <3>1. Revocations'
      BY <1>1, <2>2, <2>10 DEF Device!RecordRevocation, Revocations
    <3> QED
      BY <2>5, <2>7, <3>1 DEF DeviceInv
  <2>11. CASE Device!Fail(a)
    <3>1. Revocations'
      BY <1>1, <2>2, <2>11 DEF Device!Fail, Revocations
    <3> QED
      BY <2>5, <2>7, <3>1 DEF DeviceInv
  <2> QED
    BY <1>6, <2>8, <2>9, <2>10, <2>11
<1>7. ASSUME NEW d \in Uuids, Device!TokenExpires(d)
      PROVE  DeviceInv'
  BY <1>1, <1>7 DEF Device!TokenExpires, DeviceInv, Device!DeviceTypeOK, Room, Revocations,
                    ActiveDevices, Creators
<1> QED
  BY <1>3, <1>4, <1>5, <1>6, <1>7 DEF Device!DeviceNext

LEMMA DeviceAlways == Spec => []DeviceInv
<1>1. Init => DeviceInv
  <2> SUFFICES ASSUME Init
               PROVE  DeviceInv
    OBVIOUS
  <2>1. Device!DeviceInit
    BY DEF Init
  <2>2. Device!DeviceTypeOK /\ Revocations
    BY <2>1 DEF Device!DeviceInit, Device!DeviceTypeOK, Revocations
  <2>3. ActiveDevices = {} /\ Creators = {}
    BY <2>1 DEF Device!DeviceInit, Device!Off, ActiveDevices, Creators
  <2>4. Cardinality(Asks) \in Nat /\ Cardinality(Asks) # 0
    BY PartsAssumption, FS_CardinalityType, FS_EmptySet
  <2>5. IsFiniteSet({}) /\ Cardinality({}) = 0
    BY FS_EmptySet
  <2>6. Room
    BY <2>3, <2>4, <2>5, PartsAssumption DEF Room
  <2> QED
    BY <2>2, <2>6 DEF DeviceInv
<1>2. DeviceInv /\ [Next]_vars => DeviceInv'
  <2>1. DeviceInv /\ UNCHANGED deviceVars => DeviceInv'
    BY DEF deviceVars, DeviceInv, Device!DeviceTypeOK, Room, Revocations, ActiveDevices, Creators
  <2> QED
    BY <2>1, PartStep, DeviceStep
<1> QED
  BY <1>1, <1>2, PTL DEF Spec

\* The active devices of a user exceed the tier's number by less than the requests
\* that run at the same time, for every number of both, and a revocation goes
\* unrecorded only if its request ended half way.
THEOREM DevicesCounted == Spec => []DevicesAccounted
<1>1. ASSUME DeviceInv
      PROVE  DevicesAccounted
  <2>1. Cardinality(ActiveDevices) < MaxDevices + Cardinality(Asks)
    <3>1. Creators \in SUBSET Asks
      BY DEF Creators
    <3>2. Cardinality(Creators) \in Nat /\ Cardinality(ActiveDevices) \in Nat /\ Cardinality(Asks) \in Nat
      BY <1>1, <3>1, PartsAssumption, FS_Subset, FS_CardinalityType DEF DeviceInv, Room
    <3> QED
      BY <1>1, <3>2, PartsAssumption DEF DeviceInv, Room
  <2>2. Device!CountActiveByUser < MaxDevices + Cardinality(Asks)
    BY <2>1, SameCardinality DEF Device!CountActiveByUser, ActiveDevices
  <2> QED
    BY <1>1, <2>2, SameCardinality
       DEF DevicesAccounted, Device!DevicesAccounted, DeviceInv, Revocations, Device!Doing
<1>2. DeviceInv => DevicesAccounted
  BY <1>1
<1> QED
  BY <1>2, DeviceAlways, PTL

-----------------------------------------------------------------------------
(***************************************************************************)
(* The second factor                                                       *)
(***************************************************************************)
FactorPC == {"get", "upsert", "newCodes", "verify", "list", "mark", "success", "failure"}
              \cup Factor!Verified
FactorOps == {"setup", "enable", "disable", "regenerate", "login", "stepUp"}
FactorCalls == [pc : FactorPC, op : FactorOps, offer : Factor!Offers,
                code : {Factor!NoCode} \cup Codes, early : BOOLEAN, valid : BOOLEAN]
FactorRows == [enabled : BOOLEAN, failed : 0..MaxFailures, locked : BOOLEAN, present : BOOLEAN]
FactorRuns == [Checks -> {Factor!Free} \cup FactorCalls]

\* The requests that have seen the row and may still record a failure.
Guessing == {k \in Checks : check[k].pc \in {"verify", "list", "mark", "failure"}}

\* Under a lock only those requests add to the failures; without one the counter
\* of the row knows of them all.
GuessLimit ==
  IF row.locked THEN guesses + Cardinality(Guessing) < MaxFailures + Cardinality(Checks)
  ELSE guesses <= row.failed /\ guesses < MaxFailures

\* An unused code was not accepted before.
FreshCodes == \A c \in Codes : spent[c] <= 1 /\ (c \in codes => spent[c] = 0)

\* A request past its code has presented a right one, and a setup about to write the
\* row has found it not enabled.  A setup takes no code.
EntitledAs(r) ==
  /\ r.pc \in {"success"} \cup Factor!Verified => r.valid
  /\ r.pc = "upsert" => r.early
  /\ r.pc \in {"idle", "get", "upsert", "newCodes"} \/ r.op # "setup"

Entitled ==
  /\ row.enabled => row.present
  /\ \A k \in Checks : EntitledAs(check[k])

FactorInv == Factor!FactorTypeOK /\ GuessLimit /\ FreshCodes /\ Entitled

LEMMA FactorType ==
  Factor!FactorTypeOK <=>
    /\ row \in FactorRows /\ codes \subseteq Codes /\ check \in FactorRuns
    /\ spent \in [Codes -> 0..2] /\ guesses \in Nat
BY DEF Factor!FactorTypeOK, FactorRows, FactorRuns, FactorCalls, FactorPC, FactorOps

LEMMA FactorTypeNext ==
  Factor!FactorTypeOK' <=>
    /\ row' \in FactorRows /\ codes' \subseteq Codes /\ check' \in FactorRuns
    /\ spent' \in [Codes -> 0..2] /\ guesses' \in Nat
BY DEF Factor!FactorTypeOK, FactorRows, FactorRuns, FactorCalls, FactorPC, FactorOps

Alone(k) == \A q \in Checks \ {k} : check'[q] = check[q]

LEMMA CheckMoves ==
  ASSUME check \in FactorRuns, NEW k \in Checks
  PROVE  /\ check[k].pc # "idle" => check[k] \in FactorCalls
         /\ check[k].pc # "idle" => \A pc \in FactorPC : Factor!Then(k, pc) =>
              /\ check' \in FactorRuns /\ Alone(k)
              /\ check'[k].pc = pc /\ check'[k].op = check[k].op
              /\ check'[k].valid = check[k].valid
         /\ check[k].pc # "idle" /\ Factor!Matched(k) =>
              /\ check' \in FactorRuns /\ Alone(k)
              /\ check'[k].pc = "success" /\ check'[k].op = check[k].op /\ check'[k].valid
         /\ Factor!Done(k) => check' \in FactorRuns /\ Alone(k) /\ check'[k].pc = "idle"
<1>1. ASSUME check[k].pc # "idle"
      PROVE  check[k] \in FactorCalls
  BY <1>1 DEF FactorRuns, Factor!Free
<1>2. ASSUME check[k].pc # "idle", NEW pc \in FactorPC, Factor!Then(k, pc)
      PROVE  /\ check' \in FactorRuns /\ Alone(k)
             /\ check'[k].pc = pc /\ check'[k].op = check[k].op
             /\ check'[k].valid = check[k].valid
  <2>1. [check[k] EXCEPT !.pc = pc] \in FactorCalls
    BY <1>1, <1>2 DEF FactorCalls
  <2>2. check' = [check EXCEPT ![k] = [check[k] EXCEPT !.pc = pc]]
    BY <1>2 DEF Factor!Then, FactorRuns
  <2> QED
    BY <1>1, <1>2, <2>1, <2>2 DEF FactorRuns, FactorCalls, Alone
<1>3. ASSUME Factor!Done(k)
      PROVE  check' \in FactorRuns /\ Alone(k) /\ check'[k].pc = "idle"
  BY <1>3 DEF Factor!Done, FactorRuns, Factor!Free, Alone
<1>4. ASSUME check[k].pc # "idle", Factor!Matched(k)
      PROVE  /\ check' \in FactorRuns /\ Alone(k)
             /\ check'[k].pc = "success" /\ check'[k].op = check[k].op /\ check'[k].valid
  <2> DEFINE r == [check[k] EXCEPT !.pc = "success", !.valid = TRUE]
  <2>1. r \in FactorCalls /\ r.pc = "success" /\ r.op = check[k].op /\ r.valid
    BY <1>1, <1>4 DEF FactorCalls, FactorPC
  <2>2. check' = [check EXCEPT ![k] = r]
    BY <1>4 DEF Factor!Matched, FactorRuns
  <2> HIDE DEF r
  <2> QED
    BY <2>1, <2>2 DEF FactorRuns, Alone
<1> QED
  BY <1>1, <1>2, <1>3, <1>4

\* The requests that may still fail, as one of them moves.
LEMMA GuessingMoves ==
  ASSUME NEW k \in Checks, Alone(k)
  PROVE  /\ Cardinality(Guessing) \in Nat /\ Cardinality(Guessing') \in Nat
         /\ check'[k].pc \notin {"verify", "list", "mark", "failure"} =>
              /\ Cardinality(Guessing') <= Cardinality(Guessing)
              /\ Cardinality(Guessing') < Cardinality(Checks)
              /\ check[k].pc = "failure" => Cardinality(Guessing') = Cardinality(Guessing) - 1
         /\ check[k].pc \in {"verify", "list", "mark", "failure"} =>
              Cardinality(Guessing') <= Cardinality(Guessing)
<1> DEFINE May == {"verify", "list", "mark", "failure"}
<1>1. IsFiniteSet(Checks) /\ Cardinality(Checks) \in Nat
  BY PartsAssumption, FS_CardinalityType
<1>2. Guessing \in SUBSET Checks /\ Guessing' \in SUBSET Checks
  BY DEF Guessing
<1>3. IsFiniteSet(Guessing) /\ IsFiniteSet(Guessing')
  BY <1>1, <1>2, FS_Subset
<1>4. Cardinality(Guessing) \in Nat /\ Cardinality(Guessing') \in Nat
  BY <1>3, FS_CardinalityType
<1>5. ASSUME check'[k].pc \notin May
      PROVE  /\ Cardinality(Guessing') <= Cardinality(Guessing)
             /\ Cardinality(Guessing') < Cardinality(Checks)
             /\ check[k].pc = "failure" => Cardinality(Guessing') = Cardinality(Guessing) - 1
  <2>1. Guessing' = Guessing \ {k} /\ (check[k].pc = "failure" => k \in Guessing)
    BY <1>5 DEF Guessing, Alone
  <2>2. Guessing' # Checks /\ Guessing' \in SUBSET Checks
    BY <1>2, <2>1
  <2>3. Cardinality(Guessing') < Cardinality(Checks)
    <3>1. Cardinality(Guessing') <= Cardinality(Checks) /\ Cardinality(Guessing') # Cardinality(Checks)
      BY <1>1, <2>2, FS_Subset
    <3> QED
      BY <1>1, <1>4, <3>1
  <2>4. Cardinality(Guessing') = Cardinality(Guessing \ {k})
    BY <2>1
  <2> QED
    BY <1>3, <2>1, <2>3, <2>4, OneMoreOrLess
<1>6. ASSUME check[k].pc \in May
      PROVE  Cardinality(Guessing') <= Cardinality(Guessing)
  <2>1. Guessing' \in SUBSET Guessing
    BY <1>6 DEF Guessing, Alone
  <2> QED
    BY <1>3, <2>1, FS_Subset
<1> QED
  BY <1>4, <1>5, <1>6

\* What a wrong code makes of row and counter.
LEMMA FailureCounts ==
  ASSUME row \in FactorRows, guesses \in Nat, row' = Factor!AfterFailure
  PROVE  /\ row' \in FactorRows
         /\ row'.enabled = row.enabled /\ row'.present = row.present
         /\ row.locked => row'.locked
         /\ ~row.locked /\ row'.locked => row.failed + 1 >= MaxFailures
         /\ ~row'.locked => row'.failed = row.failed + 1 /\ row.failed + 1 < MaxFailures
<1>1. MaxFailures \in Nat /\ row.failed \in 0..MaxFailures
  BY PartsAssumption DEF FactorRows
<1>2. /\ row'.failed = Factor!Min2(row.failed + 1, MaxFailures)
      /\ row'.locked = (row.locked \/ Factor!Locks(row.failed + 1))
      /\ row'.enabled = row.enabled /\ row'.present = row.present
  BY DEF Factor!AfterFailure, FactorRows
<1>3. Factor!Min2(row.failed + 1, MaxFailures) \in 0..MaxFailures
  BY <1>1 DEF Factor!Min2
<1>4. row' \in FactorRows
  BY <1>3 DEF Factor!AfterFailure, FactorRows
<1>5. /\ row.locked => row'.locked
      /\ ~row.locked /\ row'.locked => row.failed + 1 >= MaxFailures
      /\ ~row'.locked => row.failed + 1 < MaxFailures
  <2>1. row'.locked <=> row.locked \/ row.failed + 1 >= MaxFailures
    BY <1>2, Zenon DEF Factor!Locks
  <2> QED
    BY <1>1, <2>1
<1>6. ~row'.locked => row'.failed = row.failed + 1
  BY <1>1, <1>2, <1>5 DEF Factor!Min2
<1> QED
  BY <1>2, <1>4, <1>5, <1>6

\* Statements that clear the counter.
LEMMA RowsCleared ==
  ASSUME row \in FactorRows
  PROVE  /\ Factor!AfterSetup \in FactorRows /\ Factor!NoRow \in FactorRows
         /\ Factor!AfterEnable \in FactorRows /\ Factor!AfterSuccess \in FactorRows
         /\ ~Factor!AfterSetup.locked /\ ~Factor!AfterSetup.enabled
         /\ ~Factor!NoRow.locked /\ ~Factor!NoRow.enabled
         /\ ~Factor!AfterEnable.locked /\ Factor!AfterEnable.enabled = row.present
         /\ Factor!AfterEnable.present = row.present
         /\ ~Factor!AfterSuccess.locked /\ Factor!AfterSuccess.enabled = row.enabled
         /\ Factor!AfterSuccess.present = row.present
<1>1. 0 \in 0..MaxFailures
  BY PartsAssumption
<1>2. Factor!NoRow \in FactorRows /\ ~Factor!NoRow.locked /\ ~Factor!NoRow.enabled
  BY <1>1 DEF Factor!NoRow, FactorRows
<1>3. Factor!AfterSetup \in FactorRows /\ ~Factor!AfterSetup.locked /\ ~Factor!AfterSetup.enabled
  BY <1>1 DEF Factor!AfterSetup, Factor!NoRow, FactorRows
<1>4. /\ Factor!AfterEnable \in FactorRows /\ ~Factor!AfterEnable.locked
      /\ Factor!AfterEnable.enabled = row.present /\ Factor!AfterEnable.present = row.present
  <2>1. row.present \in BOOLEAN
    BY DEF FactorRows
  <2> QED
    BY <1>1, <2>1 DEF Factor!AfterEnable, FactorRows
<1>5. /\ Factor!AfterSuccess \in FactorRows /\ ~Factor!AfterSuccess.locked
      /\ Factor!AfterSuccess.enabled = row.enabled /\ Factor!AfterSuccess.present = row.present
  BY <1>1 DEF Factor!AfterSuccess, FactorRows
<1> QED
  BY <1>2, <1>3, <1>4, <1>5

LEMMA FactorStep ==
  ASSUME FactorInv, Factor!FactorNext
  PROVE  FactorInv'
<1>1. /\ row \in FactorRows /\ codes \subseteq Codes /\ check \in FactorRuns
      /\ spent \in [Codes -> 0..2] /\ guesses \in Nat
      /\ GuessLimit /\ FreshCodes /\ Entitled
  BY FactorType DEF FactorInv
<1>2. Cardinality(Checks) \in Nat /\ MaxFailures \in Nat \ {0}
  BY PartsAssumption, FS_CardinalityType
<1> USE DEF Factor!On, FactorPC, Factor!Verified
\* A move of one request that writes nothing but its own columns.
<1>3. ASSUME NEW k \in Checks, check' \in FactorRuns, Alone(k), UNCHANGED <<row, codes, spent, guesses>>,
             \/ check'[k].pc \notin {"verify", "list", "mark", "failure"}
             \/ check[k].pc \in {"verify", "list", "mark", "failure"}
             \/ ~row.locked,
             EntitledAs(check'[k])
      PROVE  FactorInv'
  <2>1. Factor!FactorTypeOK'
    BY <1>1, <1>3, FactorTypeNext
  <2>2. GuessLimit'
    BY <1>1, <1>2, <1>3, GuessingMoves DEF GuessLimit
  <2>3. FreshCodes' /\ Entitled'
    BY <1>1, <1>3 DEF FreshCodes, Entitled, Alone
  <2> QED
    BY <2>1, <2>2, <2>3 DEF FactorInv
\* A statement that clears the counter.
<1>4. ASSUME NEW k \in Checks, check' \in FactorRuns, row' \in FactorRows, ~row'.locked, guesses' = 0,
             codes' \subseteq codes, spent' = spent, Entitled'
      PROVE  FactorInv'
  <2>1. Factor!FactorTypeOK'
    BY <1>1, <1>4, FactorTypeNext
  <2>2. GuessLimit'
    BY <1>2, <1>4 DEF GuessLimit, FactorRows
  <2>3. FreshCodes'
    BY <1>1, <1>4 DEF FreshCodes
  <2> QED
    BY <1>4, <2>1, <2>2, <2>3 DEF FactorInv
<1>5. ASSUME NEW k \in Checks, NEW op \in FactorOps, NEW offer \in Factor!Offers, Factor!Call(k, op, offer)
      PROVE  FactorInv'
  <2> DEFINE c == [pc |-> "get", op |-> op, offer |-> offer, code |-> Factor!NoCode,
                  early |-> FALSE, valid |-> FALSE]
  <2>1. c \in FactorCalls /\ c.pc = "get"
    BY DEF FactorCalls
  <2>2. check' = [check EXCEPT ![k] = c] /\ UNCHANGED <<row, codes, spent, guesses>>
    BY <1>5 DEF Factor!Call
  <2> HIDE DEF c
  <2>3. check' \in FactorRuns /\ Alone(k) /\ check'[k].pc = "get"
    BY <1>1, <2>1, <2>2 DEF FactorRuns, Alone
  <2>4. EntitledAs(check'[k])
    BY <2>3 DEF EntitledAs
  <2> QED
    BY <1>3, <2>2, <2>3, <2>4
<1>6. ASSUME NEW k \in Checks, Factor!Step(k)
      PROVE  FactorInv'
  <2>1. check[k].pc # "idle"
    BY <1>6 DEF Factor!Step, Factor!Get, Factor!UpsertSetup, Factor!ReplaceBackupCodes,
                Factor!ValidateTOTP, Factor!ListBackupCodes, Factor!MarkBackupCodeUsed,
                Factor!RecordSuccess, Factor!RecordFailure, Factor!Enable, Factor!Disable,
                Factor!Grant, Factor!GiveUp
  <2>2. /\ check[k] \in FactorCalls
        /\ \A pc \in FactorPC : Factor!Then(k, pc) =>
              /\ check' \in FactorRuns /\ Alone(k) /\ check'[k].pc = pc
              /\ check'[k].op = check[k].op /\ check'[k].valid = check[k].valid
        /\ Factor!Matched(k) =>
              /\ check' \in FactorRuns /\ Alone(k) /\ check'[k].pc = "success"
              /\ check'[k].op = check[k].op /\ check'[k].valid
        /\ Factor!Done(k) => check' \in FactorRuns /\ Alone(k) /\ check'[k].pc = "idle"
    BY <1>1, <2>1, CheckMoves
  <2>asked. /\ check[k].pc \in {"idle", "get", "upsert", "newCodes"} \/ check[k].op # "setup"
            /\ check[k].pc \in {"success"} \cup Factor!Verified => check[k].valid
    BY <1>1 DEF Entitled, EntitledAs
  <2>done. check'[k].pc = "idle" => EntitledAs(check'[k])
    BY DEF EntitledAs
  <2>3. CASE Factor!Get(k)
    <3>1. UNCHANGED <<row, codes, spent, guesses>>
      BY <2>3 DEF Factor!Get
    <3>2. CASE Factor!Done(k)
      BY <1>3, <2>2, <2>done, <3>1, <3>2
    <3>3. ASSUME ~Factor!Done(k)
          PROVE  FactorInv'
      <4> DEFINE pc == IF check[k].op = "setup" THEN "upsert" ELSE "verify"
                 r == [check[k] EXCEPT !.pc = pc, !.early = ~row.enabled]
      <4>1. /\ check' = [check EXCEPT ![k] = r]
            /\ check[k].op = "setup" => ~row.enabled
            /\ check[k].op # "setup" => ~row.locked
        BY <1>1, <2>3, <3>3 DEF Factor!Get, Factor!Accepts, FactorRuns
      <4>2. r \in FactorCalls /\ r.pc = pc /\ r.op = check[k].op /\ r.early = ~row.enabled
        BY <2>2 DEF FactorCalls
      <4> HIDE DEF r
      <4>3. EntitledAs(r)
        <5>1. check[k].op = "setup" => r.pc = "upsert" /\ r.early
          BY <4>1, <4>2, Zenon
        <5>2. check[k].op # "setup" => r.pc = "verify" /\ r.op # "setup"
          BY <4>2
        <5> QED
          BY <5>1, <5>2 DEF EntitledAs
      <4>4. r.pc \in {"verify", "list", "mark", "failure"} => ~row.locked
        BY <4>1, <4>2
      <4>5. check' \in FactorRuns /\ Alone(k) /\ check'[k] = r
        BY <1>1, <4>1, <4>2 DEF FactorRuns, Alone
      <4>6. EntitledAs(check'[k]) /\ (check'[k].pc \in {"verify", "list", "mark", "failure"} => ~row.locked)
        BY <4>3, <4>4, <4>5
      <4> HIDE DEF pc
      <4> QED
        BY <1>3, <3>1, <4>5, <4>6
    <3> QED
      BY <3>2, <3>3
  <2>4. CASE Factor!UpsertSetup(k)
    <3>1. Entitled'
      BY <1>1, <2>2, <2>4, RowsCleared DEF Factor!UpsertSetup, Entitled, EntitledAs, Alone
    <3> QED
      BY <1>1, <1>4, <2>2, <2>4, <3>1, RowsCleared DEF Factor!UpsertSetup
  <2>5. CASE Factor!ReplaceBackupCodes(k)
    <3>1. PICK c \in Codes \ codes :
            /\ codes' = {c}
            /\ spent' = [d \in Codes |-> IF d = c \/ ~Factor!Held(d) THEN 0 ELSE spent[d]]
      BY <2>5 DEF Factor!ReplaceBackupCodes
    <3>2. check' \in FactorRuns /\ Alone(k) /\ check'[k].pc = "idle" /\ UNCHANGED <<row, guesses>>
      BY <2>2, <2>5 DEF Factor!ReplaceBackupCodes
    <3>3. spent' \in [Codes -> 0..2] /\ FreshCodes'
      BY <1>1, <3>1 DEF FreshCodes
    <3>4. Factor!FactorTypeOK'
      BY <1>1, <3>1, <3>2, <3>3, FactorTypeNext
    <3>5. GuessLimit'
      BY <1>1, <1>2, <3>2, GuessingMoves DEF GuessLimit
    <3>6. Entitled'
      BY <1>1, <2>done, <3>2 DEF Entitled, Alone
    <3> QED
      BY <3>3, <3>4, <3>5, <3>6 DEF FactorInv
  <2>6. CASE Factor!ValidateTOTP(k)
    <3>1. Factor!Matched(k) \/ \E pc \in {"failure", "list"} : Factor!Then(k, pc)
      BY <2>6 DEF Factor!ValidateTOTP
    <3>2. check' \in FactorRuns /\ Alone(k) /\ EntitledAs(check'[k])
      BY <2>2, <2>6, <2>asked, <3>1 DEF Factor!ValidateTOTP, EntitledAs
    <3> QED
      BY <1>3, <2>6, <3>2 DEF Factor!ValidateTOTP
  <2>7. CASE Factor!ListBackupCodes(k)
    <3>1. ASSUME NEW c \in codes, check' = [check EXCEPT ![k].pc = "mark", ![k].code = c]
          PROVE  check' \in FactorRuns /\ Alone(k) /\ check'[k].pc = "mark" /\ check'[k].op = check[k].op
      <4>1. [check[k] EXCEPT !.pc = "mark", !.code = c] \in FactorCalls
        BY <1>1, <2>2, <3>1 DEF FactorCalls
      <4>2. check' = [check EXCEPT ![k] = [check[k] EXCEPT !.pc = "mark", !.code = c]]
        BY <1>1, <3>1 DEF FactorRuns
      <4>3. check'[k].pc = "mark" /\ check'[k].op = check[k].op
        BY <1>1, <2>2, <4>2 DEF FactorRuns, FactorCalls
      <4> QED
        BY <1>1, <4>1, <4>2, <4>3 DEF FactorRuns, Alone
    <3>2. check' \in FactorRuns /\ Alone(k) /\ check'[k].pc \in {"mark", "failure"}
          /\ check'[k].op = check[k].op
      BY <2>2, <2>7, <3>1 DEF Factor!ListBackupCodes
    <3>3. EntitledAs(check'[k])
      BY <2>7, <2>asked, <3>2 DEF Factor!ListBackupCodes, EntitledAs
    <3> QED
      BY <1>3, <2>7, <3>2, <3>3 DEF Factor!ListBackupCodes
  <2>8. CASE Factor!MarkBackupCodeUsed(k)
    <3>1. CASE check[k].code \in codes
      <4>1. PICK c \in codes : c = check[k].code
        BY <3>1
      <4>2. codes' = codes \ {c} /\ spent' = [spent EXCEPT ![c] = @ + 1] /\ Factor!Matched(k)
            /\ UNCHANGED <<row, guesses>>
        BY <2>8, <3>1, <4>1 DEF Factor!MarkBackupCodeUsed
      <4>3. check' \in FactorRuns /\ Alone(k) /\ check'[k].pc = "success" /\ EntitledAs(check'[k])
        BY <2>2, <2>8, <2>asked, <4>2 DEF Factor!MarkBackupCodeUsed, EntitledAs
      <4>4. spent[c] = 0 /\ c \in Codes
        BY <1>1, <4>1 DEF FreshCodes
      <4>5. spent' \in [Codes -> 0..2] /\ FreshCodes'
        BY <1>1, <4>2, <4>4 DEF FreshCodes
      <4>6. Factor!FactorTypeOK'
        BY <1>1, <4>2, <4>3, <4>5, FactorTypeNext
      <4>7. GuessLimit'
        BY <1>1, <1>2, <4>2, <4>3, GuessingMoves DEF GuessLimit
      <4>8. Entitled'
        BY <1>1, <4>2, <4>3 DEF Entitled, Alone
      <4> QED
        BY <4>5, <4>6, <4>7, <4>8 DEF FactorInv
    <3>2. CASE check[k].code \notin codes
      <4>1. Factor!Then(k, "failure") /\ UNCHANGED <<row, codes, spent, guesses>>
        BY <2>8, <3>2 DEF Factor!MarkBackupCodeUsed
      <4>2. EntitledAs(check'[k])
        BY <2>2, <2>8, <2>asked, <4>1 DEF Factor!MarkBackupCodeUsed, EntitledAs
      <4> QED
        BY <1>3, <2>2, <2>8, <4>1, <4>2 DEF Factor!MarkBackupCodeUsed
    <3> QED
      BY <3>1, <3>2
  <2>9. CASE Factor!RecordSuccess(k)
    <3>1. \E pc \in Factor!Verified : Factor!Then(k, pc)
      <4>1. Factor!Then(k, Factor!Goal(k)) /\ check[k].op \in FactorOps
        BY <2>2, <2>9 DEF Factor!RecordSuccess, FactorCalls
      <4>2. check[k].op # "setup"
        BY <2>9, <2>asked DEF Factor!RecordSuccess
      <4>3. Factor!Goal(k) \in Factor!Verified
        BY <4>1, <4>2 DEF Factor!Goal, FactorOps
      <4> QED
        BY <4>1, <4>3
    <3>2. check' \in FactorRuns /\ Alone(k) /\ EntitledAs(check'[k])
      BY <2>2, <2>9, <2>asked, <3>1 DEF Factor!RecordSuccess, EntitledAs
    <3>3. Entitled'
      BY <1>1, <2>9, <3>2, RowsCleared DEF Factor!RecordSuccess, Entitled, Alone
    <3> QED
      BY <1>1, <1>4, <2>9, <3>2, <3>3, RowsCleared DEF Factor!RecordSuccess
  <2>10. CASE Factor!RecordFailure(k)
    <3>1. check' \in FactorRuns /\ Alone(k) /\ check'[k].pc = "idle" /\ check[k].pc = "failure"
          /\ UNCHANGED <<codes, spent>>
      BY <2>2, <2>10 DEF Factor!RecordFailure
    <3>2. CASE row' = Factor!AfterFailure /\ guesses' = guesses + 1
      <4>1. /\ row' \in FactorRows
            /\ row'.enabled = row.enabled /\ row'.present = row.present
            /\ row.locked => row'.locked
            /\ ~row.locked /\ row'.locked => row.failed + 1 >= MaxFailures
            /\ ~row'.locked => row'.failed = row.failed + 1 /\ row.failed + 1 < MaxFailures
        BY <1>1, <3>2, FailureCounts
      <4>2. Factor!FactorTypeOK'
        BY <1>1, <3>1, <3>2, <4>1, FactorTypeNext
      <4>3. /\ Cardinality(Guessing) \in Nat /\ Cardinality(Guessing') \in Nat
            /\ Cardinality(Guessing') = Cardinality(Guessing) - 1
            /\ Cardinality(Guessing') < Cardinality(Checks)
        BY <3>1, GuessingMoves
      <4>4. row.failed \in Nat
        BY <1>1, <1>2 DEF FactorRows
      <4>5. GuessLimit'
        BY <1>1, <1>2, <3>2, <4>1, <4>3, <4>4 DEF GuessLimit
      <4>6. FreshCodes' /\ Entitled'
        BY <1>1, <2>done, <3>1, <4>1 DEF FreshCodes, Entitled, Alone
      <4> QED
        BY <4>2, <4>5, <4>6 DEF FactorInv
    <3>3. CASE UNCHANGED <<row, guesses>>
      BY <1>3, <2>done, <3>1, <3>3
    <3> QED
      BY <2>10, <3>2, <3>3 DEF Factor!RecordFailure
  <2>11. CASE Factor!Enable(k)
    <3>1. Entitled'
      BY <1>1, <2>2, <2>done, <2>11, RowsCleared DEF Factor!Enable, Entitled, Alone
    <3> QED
      BY <1>1, <1>4, <2>2, <2>11, <3>1, RowsCleared DEF Factor!Enable
  <2>12. CASE Factor!Disable(k)
    <3>1. Entitled'
      BY <1>1, <2>2, <2>done, <2>12, RowsCleared DEF Factor!Disable, Entitled, Alone
    <3> QED
      BY <1>1, <1>4, <2>2, <2>12, <3>1, RowsCleared DEF Factor!Disable
  <2>13. CASE Factor!Grant(k) \/ Factor!GiveUp(k)
    BY <1>3, <2>2, <2>done, <2>13 DEF Factor!Grant, Factor!GiveUp
  <2> QED
    BY <1>6, <2>3, <2>4, <2>5, <2>6, <2>7, <2>8, <2>9, <2>10, <2>11, <2>12, <2>13 DEF Factor!Step
<1>7. CASE Factor!LockExpires
  <2>1. /\ row' \in FactorRows /\ ~row'.locked
        /\ row'.enabled = row.enabled /\ row'.present = row.present
    BY <1>1, <1>7 DEF Factor!LockExpires, FactorRows
  <2>2. Factor!FactorTypeOK'
    BY <1>1, <1>7, <2>1, FactorTypeNext DEF Factor!LockExpires
  <2>3. GuessLimit'
    BY <1>2, <1>7, <2>1 DEF Factor!LockExpires, GuessLimit, FactorRows
  <2>4. FreshCodes' /\ Entitled'
    BY <1>1, <1>7, <2>1 DEF Factor!LockExpires, FreshCodes, Entitled
  <2> QED
    BY <2>2, <2>3, <2>4 DEF FactorInv
<1>8. {"setup", "enable", "disable", "regenerate", "login", "stepUp"} = FactorOps
      /\ "wrong" \in Factor!Offers
  BY DEF FactorOps, Factor!Offers
<1> QED
  BY <1>5, <1>6, <1>7, <1>8 DEF Factor!FactorNext

LEMMA FactorAlways == Spec => []FactorInv
<1>1. Init => FactorInv
  <2> SUFFICES ASSUME Init
               PROVE  FactorInv
    OBVIOUS
  <2>1. Factor!FactorInit
    BY DEF Init
  <2>2. Factor!FactorTypeOK
    BY <2>1, PartsAssumption DEF Factor!FactorInit, Factor!FactorTypeOK, Factor!NoRow
  <2>3. GuessLimit /\ FreshCodes /\ Entitled
    BY <2>1, PartsAssumption
       DEF Factor!FactorInit, Factor!NoRow, Factor!Free, Factor!Verified, GuessLimit, FreshCodes,
           Entitled, EntitledAs
  <2> QED
    BY <2>2, <2>3 DEF FactorInv
<1>2. FactorInv /\ [Next]_vars => FactorInv'
  <2>1. FactorInv /\ UNCHANGED factorVars => FactorInv'
    BY DEF factorVars, FactorInv, Factor!FactorTypeOK, GuessLimit, Guessing, FreshCodes,
       Entitled
  <2> QED
    BY <2>1, PartStep, FactorStep
<1> QED
  BY <1>1, <1>2, PTL DEF Spec

\* Guessing stops at the lock for every number of requests: beyond the limit there
\* is less than one guess of each that is under way.
THEOREM GuessesStop == Spec => []GuessesBounded
<1>1. ASSUME FactorInv
      PROVE  GuessesBounded
  <2>1. Guessing \in SUBSET Checks
    BY DEF Guessing
  <2>2. Cardinality(Guessing) \in Nat /\ Cardinality(Checks) \in Nat /\ guesses \in Nat
    BY <1>1, <2>1, PartsAssumption, FS_Subset, FS_CardinalityType DEF FactorInv, Factor!FactorTypeOK
  <2>3. guesses < MaxFailures + Cardinality(Checks)
    BY <1>1, <2>2, PartsAssumption DEF FactorInv, GuessLimit
  <2> QED
    BY <2>3, SameCardinality DEF GuessesBounded, Factor!GuessesBounded
<1>2. FactorInv => GuessesBounded
  BY <1>1
<1> QED
  BY <1>2, FactorAlways, PTL

\* Two-factor protection goes off only by the step of a request whose own code was
\* right, or of a setup that read the row before it was enabled (Disable, Setup), for
\* any number of requests and codes.
THEOREM CodeDisables == Spec => OnlyCodeDisables
<1> DEFINE May(k) == /\ check[k] # Factor!Free /\ check'[k] # check[k]
                     /\ check[k].valid \/ check[k].early
           Off1 == row.enabled /\ ~row'.enabled => \E k \in Checks : May(k)
<1>1. ASSUME FactorInv, [Next]_vars
      PROVE  Off1
  <2> SUFFICES ASSUME row.enabled, ~row'.enabled
               PROVE  \E k \in Checks : May(k)
    OBVIOUS
  <2>1. row \in FactorRows /\ row.present /\ check \in FactorRuns /\ Entitled
    BY <1>1, FactorType DEF FactorInv, Entitled
  <2>2. row' # row
    OBVIOUS
  <2>3. Factor!FactorNext
    BY <1>1, <2>2, PartStep DEF factorVars
  <2>4. row' # Factor!AfterEnable /\ row' # Factor!AfterSuccess
    BY <2>1, RowsCleared
  <2>5. row' # Factor!AfterFailure /\ row' # [row EXCEPT !.locked = FALSE]
    BY <2>1 DEF Factor!AfterFailure, FactorRows
  <2>6. \E k \in Checks : Factor!UpsertSetup(k) \/ Factor!Disable(k)
    BY <2>2, <2>3, <2>4, <2>5
       DEF Factor!FactorNext, Factor!Call, Factor!Step, Factor!Get, Factor!ReplaceBackupCodes,
           Factor!ValidateTOTP, Factor!ListBackupCodes, Factor!MarkBackupCodeUsed,
           Factor!RecordSuccess, Factor!RecordFailure, Factor!Enable, Factor!Grant, Factor!GiveUp,
           Factor!LockExpires
  <2>7. ASSUME NEW k \in Checks, Factor!UpsertSetup(k) \/ Factor!Disable(k)
        PROVE  May(k)
    <3>1. /\ check[k].pc \in {"upsert", "delete"} /\ check[k].pc # "idle"
          /\ Factor!Then(k, "newCodes") \/ Factor!Done(k)
      BY <2>7 DEF Factor!UpsertSetup, Factor!Disable, Factor!On
    <3>2. check'[k].pc \in {"newCodes", "idle"}
      BY <2>1, <3>1, CheckMoves DEF FactorPC
    <3>3. check[k].valid \/ check[k].early
      BY <2>1, <3>1 DEF Entitled, EntitledAs, Factor!Verified
    <3> QED
      BY <3>1, <3>2, <3>3 DEF Factor!Free
  <2> QED
    BY <2>6, <2>7
<1>2. FactorInv /\ [Next]_vars => [Off1]_(Factor!factorVars)
  BY <1>1
<1> HIDE DEF Off1
<1>3. Spec => [][Off1]_(Factor!factorVars)
  BY <1>2, FactorAlways, PTL DEF Spec
<1> QED
  BY <1>3 DEF OnlyCodeDisables, Factor!OnlyCodeDisables, Off1

-----------------------------------------------------------------------------
(***************************************************************************)
(* Passkeys                                                                *)
(***************************************************************************)
CeremonyPC == {"save", "gate", "gateFactor", "consume", "lookup", "use", "create"}
CeremonyCalls ==
  [pc : CeremonyPC, type : Passkey!Types, ch : {Passkey!NoChallenge} \cup Challenges,
   key : {Passkey!NoKey} \cup Keys, elevated : BOOLEAN, crossed : BOOLEAN]
CeremonyRuns == [Ceremonies -> {Passkey!Still} \cup CeremonyCalls]

\* The request has consumed the challenge.
Carries(x, h) == ceremony[x].pc \in {"lookup", "use", "create"} /\ ceremony[x].ch = h

\* A challenge is unused, or with one request, or has carried its ceremony.
Carried ==
  \A h \in Challenges :
    /\ finished[h] <= 1
    /\ challenge[h] # "none" =>
         finished[h] = 0 /\ \A x \in Ceremonies : ~Carries(x, h)
    /\ \A x \in Ceremonies : Carries(x, h) =>
         finished[h] = 0 /\ \A y \in Ceremonies : Carries(y, h) => x = y

Named ==
  \A x \in Ceremonies :
    /\ ceremony[x].pc \notin {"idle", "save"} => ceremony[x].ch \in Challenges
    /\ ceremony[x].pc \in {"gate", "gateFactor", "create"} => ceremony[x].type = "registration"
    /\ ceremony[x].pc = "create" => ceremony[x].key \in Keys

\* Past its check, a registration while there is a passkey has a step-up or
\* another registration has crossed it.
Elevated ==
  creds # {} =>
    \A x \in Ceremonies :
      /\ ceremony[x].pc \in {"gateFactor", "consume", "lookup", "create"}
      /\ ceremony[x].type = "registration"
      => ceremony[x].elevated \/ ceremony[x].crossed

PasskeyInv == Passkey!PasskeyTypeOK /\ Carried /\ Named /\ Elevated

LEMMA PasskeyType ==
  /\ Passkey!PasskeyTypeOK <=>
       /\ creds \subseteq Keys /\ challenge \in [Challenges -> {"none"} \cup Passkey!Types]
       /\ ceremony \in CeremonyRuns /\ finished \in [Challenges -> Nat]
  /\ Passkey!PasskeyTypeOK' <=>
       /\ creds' \subseteq Keys /\ challenge' \in [Challenges -> {"none"} \cup Passkey!Types]
       /\ ceremony' \in CeremonyRuns /\ finished' \in [Challenges -> Nat]
BY DEF Passkey!PasskeyTypeOK, CeremonyRuns, CeremonyCalls, CeremonyPC

\* The other requests stay as they are.
Apart(x) == \A y \in Ceremonies \ {x} : ceremony'[y] = ceremony[y]

\* The request keeps what it was called with.
Keeps(x) ==
  /\ ceremony'[x].type = ceremony[x].type /\ ceremony'[x].ch = ceremony[x].ch
  /\ ceremony'[x].elevated = ceremony[x].elevated /\ ceremony'[x].crossed = ceremony[x].crossed

LEMMA CeremonyMoves ==
  ASSUME ceremony \in CeremonyRuns, NEW x \in Ceremonies
  PROVE  /\ ceremony[x].pc # "idle" => ceremony[x] \in CeremonyCalls
         /\ ceremony[x].pc # "idle" => \A pc \in CeremonyPC : Passkey!GoOn(x, pc) =>
              ceremony' \in CeremonyRuns /\ Apart(x) /\ ceremony'[x].pc = pc /\ Keeps(x)
         /\ Passkey!End(x) => ceremony' \in CeremonyRuns /\ Apart(x) /\ ceremony'[x].pc = "idle"
<1>1. ASSUME ceremony[x].pc # "idle"
      PROVE  ceremony[x] \in CeremonyCalls
  BY <1>1 DEF CeremonyRuns, Passkey!Still
<1>2. ASSUME ceremony[x].pc # "idle", NEW pc \in CeremonyPC, Passkey!GoOn(x, pc)
      PROVE  ceremony' \in CeremonyRuns /\ Apart(x) /\ ceremony'[x].pc = pc /\ Keeps(x)
  <2>1. [ceremony[x] EXCEPT !.pc = pc] \in CeremonyCalls
    BY <1>1, <1>2 DEF CeremonyCalls
  <2>2. ceremony' = [ceremony EXCEPT ![x] = [ceremony[x] EXCEPT !.pc = pc]]
    BY <1>2 DEF Passkey!GoOn, CeremonyRuns
  <2>3. ceremony' \in CeremonyRuns /\ Apart(x)
    BY <2>1, <2>2 DEF CeremonyRuns, Apart
  <2>4. ceremony'[x] = [ceremony[x] EXCEPT !.pc = pc]
    BY <2>2 DEF CeremonyRuns
  <2> QED
    BY <1>1, <1>2, <2>3, <2>4 DEF CeremonyCalls, Keeps
<1>3. ASSUME Passkey!End(x)
      PROVE  ceremony' \in CeremonyRuns /\ Apart(x) /\ ceremony'[x].pc = "idle"
  BY <1>3 DEF Passkey!End, CeremonyRuns, Passkey!Still, Apart
<1> QED
  BY <1>1, <1>2, <1>3

LEMMA PasskeyStep ==
  ASSUME PasskeyInv, Passkey!PasskeyNext
  PROVE  PasskeyInv'
<1>1. /\ creds \subseteq Keys /\ challenge \in [Challenges -> {"none"} \cup Passkey!Types]
      /\ ceremony \in CeremonyRuns /\ finished \in [Challenges -> Nat]
      /\ Carried /\ Named /\ Elevated
  BY PasskeyType DEF PasskeyInv
<1> USE DEF Passkey!In, CeremonyPC
<1>2. ASSUME NEW x \in Ceremonies, NEW pc \in {"save", "gate", "consume"}, NEW type \in Passkey!Types,
             NEW h \in {Passkey!NoChallenge} \cup Challenges, NEW up \in BOOLEAN,
             Passkey!Enter(x, pc, type, h, up),
             pc # "save" => h \in Challenges, pc = "gate" <=> type = "registration" /\ pc # "save"
      PROVE  PasskeyInv'
  <2> DEFINE c == [pc |-> pc, type |-> type, ch |-> h, key |-> Passkey!NoKey, elevated |-> up,
                   crossed |-> FALSE]
  <2>1. c \in CeremonyCalls /\ c.pc = pc /\ c.type = type /\ c.ch = h
    BY DEF CeremonyCalls
  <2>2. ceremony' = [ceremony EXCEPT ![x] = c] /\ UNCHANGED <<creds, challenge, finished>>
    BY <1>2 DEF Passkey!Enter, Passkey!stored
  <2> HIDE DEF c
  <2>3. /\ ceremony' \in CeremonyRuns /\ Apart(x)
        /\ ceremony'[x].pc = pc /\ ceremony'[x].type = type /\ ceremony'[x].ch = h
    BY <1>1, <2>1, <2>2 DEF CeremonyRuns, Apart
  <2>4. Passkey!PasskeyTypeOK'
    BY <1>1, <2>2, <2>3, PasskeyType
  <2>5. Carried'
    BY <1>1, <2>2, <2>3 DEF Carried, Carries, Apart
  <2>6. Named' /\ Elevated'
    BY <1>1, <1>2, <2>2, <2>3 DEF Named, Elevated, Apart
  <2> QED
    BY <2>4, <2>5, <2>6 DEF PasskeyInv
<1>3. ASSUME NEW x \in Ceremonies,
             Passkey!BeginRegistration(x) \/ Passkey!BeginLogin(x) \/ Passkey!BeginStepUp(x)
      PROVE  PasskeyInv'
  <2>1. PICK type \in Passkey!Types : Passkey!Enter(x, "save", type, Passkey!NoChallenge, FALSE)
    BY <1>3 DEF Passkey!BeginRegistration, Passkey!BeginLogin, Passkey!BeginStepUp, Passkey!Types
  <2> QED
    BY <1>2, <2>1
<1>4. ASSUME NEW x \in Ceremonies, NEW h \in Challenges,
             Passkey!FinishRegistration(x, h) \/ Passkey!FinishLogin(x, h) \/ Passkey!FinishStepUp(x, h)
      PROVE  PasskeyInv'
  <2>1. {"registration", "login", "step_up"} = Passkey!Types
    BY DEF Passkey!Types
  <2>2. CASE Passkey!FinishRegistration(x, h)
    BY <1>2, <2>1, <2>2 DEF Passkey!FinishRegistration
  <2>3. CASE Passkey!FinishLogin(x, h)
    BY <1>2, <2>1, <2>3 DEF Passkey!FinishLogin
  <2>4. CASE Passkey!FinishStepUp(x, h)
    BY <1>2, <2>1, <2>4 DEF Passkey!FinishStepUp
  <2> QED
    BY <1>4, <2>2, <2>3, <2>4
\* Requests that end, or go on with what they have.
<1>5. ASSUME NEW x \in Ceremonies, UNCHANGED <<creds, challenge, finished>>,
             ceremony' \in CeremonyRuns, Apart(x),
             \/ ceremony'[x].pc = "idle"
             \/ /\ Keeps(x) /\ ceremony[x].pc \notin {"idle", "save"}
                /\ \/ ceremony[x].pc = "gate" /\ ceremony'[x].pc = "gateFactor" /\ creds = {}
                   \/ ceremony[x].pc = "gate" /\ ceremony'[x].pc = "consume" /\ ceremony[x].elevated
                   \/ ceremony[x].pc = "gateFactor" /\ ceremony'[x].pc = "consume"
                   \/ ceremony[x].pc = "lookup" /\ ceremony'[x].pc = "use"
                   \/ ceremony[x].pc = "lookup" /\ ceremony'[x].pc = "create"
                      /\ ceremony[x].type = "registration" /\ ceremony'[x].key \in Keys
      PROVE  PasskeyInv'
  <2>1. Passkey!PasskeyTypeOK'
    BY <1>1, <1>5, PasskeyType
  <2>2. \A y \in Ceremonies, h \in Challenges : Carries(y, h)' => Carries(y, h)
    BY <1>5 DEF Carries, Apart, Keeps
  <2>3. Carried'
    BY <1>1, <1>5, <2>2 DEF Carried
  <2>4. Named'
    BY <1>1, <1>5 DEF Named, Apart, Keeps
  <2>5. Elevated'
    BY <1>1, <1>5 DEF Elevated, Apart, Keeps
  <2> QED
    BY <2>1, <2>3, <2>4, <2>5 DEF PasskeyInv
<1>6. ASSUME NEW x \in Ceremonies,
             \/ Passkey!SaveChallenge(x) \/ Passkey!RequireStepUpForMore(x)
             \/ Passkey!RequireStepUpForFactor(x) \/ Passkey!ConsumeChallenge(x) \/ Passkey!LookUp(x)
             \/ Passkey!CreateCredential(x) \/ Passkey!UseCredential(x) \/ Passkey!Drop(x)
      PROVE  PasskeyInv'
  <2>1. ceremony[x].pc # "idle"
    BY <1>6 DEF Passkey!SaveChallenge, Passkey!RequireStepUpForMore, Passkey!RequireStepUpForFactor,
                Passkey!ConsumeChallenge, Passkey!LookUp, Passkey!CreateCredential,
                Passkey!UseCredential, Passkey!Drop
  <2>2. /\ ceremony[x] \in CeremonyCalls
        /\ \A pc \in CeremonyPC : Passkey!GoOn(x, pc) =>
             ceremony' \in CeremonyRuns /\ Apart(x) /\ ceremony'[x].pc = pc /\ Keeps(x)
        /\ Passkey!End(x) => ceremony' \in CeremonyRuns /\ Apart(x) /\ ceremony'[x].pc = "idle"
    BY <1>1, <2>1, CeremonyMoves
  <2>3. CASE Passkey!SaveChallenge(x)
    <3>1. PICK h \in Challenges :
            /\ challenge[h] = "none"
            /\ \A y \in Ceremonies : ceremony[y] # Passkey!Still => ceremony[y].ch # h
            /\ challenge' = [challenge EXCEPT ![h] = ceremony[x].type]
            /\ finished' = [finished EXCEPT ![h] = 0]
      BY <2>3 DEF Passkey!SaveChallenge
    <3>2. ceremony' \in CeremonyRuns /\ Apart(x) /\ ceremony'[x].pc = "idle" /\ creds' = creds
      BY <2>2, <2>3 DEF Passkey!SaveChallenge
    <3>3. ceremony[x].type \in Passkey!Types
      BY <2>2 DEF CeremonyCalls
    <3>4. Passkey!PasskeyTypeOK'
      BY <1>1, <3>1, <3>2, <3>3, PasskeyType
    <3>5. \A y \in Ceremonies : ~Carries(y, h)
      BY <3>1 DEF Carries, Passkey!Still
    <3>6. \A y \in Ceremonies, g \in Challenges : Carries(y, g)' => Carries(y, g)
      BY <3>2 DEF Carries, Apart
    <3>7. Carried'
      BY <1>1, <3>1, <3>5, <3>6 DEF Carried
    <3>8. Named' /\ Elevated'
      BY <1>1, <3>2 DEF Named, Elevated, Apart
    <3> QED
      BY <3>4, <3>7, <3>8 DEF PasskeyInv
  <2>4. CASE Passkey!RequireStepUpForMore(x)
    BY <1>5, <2>2, <2>4 DEF Passkey!RequireStepUpForMore, Passkey!stored
  <2>5. CASE Passkey!RequireStepUpForFactor(x)
    BY <1>5, <2>2, <2>5 DEF Passkey!RequireStepUpForFactor, Passkey!stored
  <2>6. CASE Passkey!ConsumeChallenge(x)
    <3>1. CASE Passkey!End(x) /\ UNCHANGED challenge
      BY <1>5, <2>2, <2>6, <3>1 DEF Passkey!ConsumeChallenge
    <3>2. CASE /\ Passkey!Matches(x) /\ Passkey!GoOn(x, "lookup")
               /\ challenge' = [challenge EXCEPT ![ceremony[x].ch] = "none"]
      <4>1. PICK h \in Challenges : h = ceremony[x].ch
        BY <1>1, <2>6 DEF Named, Passkey!ConsumeChallenge
      <4>2. /\ ceremony' \in CeremonyRuns /\ Apart(x) /\ ceremony'[x].pc = "lookup" /\ Keeps(x)
            /\ challenge' = [challenge EXCEPT ![h] = "none"] /\ UNCHANGED <<creds, finished>>
            /\ ceremony[x].pc = "consume"
        BY <2>2, <2>6, <3>2, <4>1 DEF Passkey!ConsumeChallenge
      <4>3. challenge[h] # "none"
        BY <2>2, <3>2, <4>1 DEF Passkey!Matches, CeremonyCalls, Passkey!Types
      <4>4. Passkey!PasskeyTypeOK'
        BY <1>1, <4>2, PasskeyType
      <4>5. \A y \in Ceremonies, g \in Challenges :
              Carries(y, g)' => Carries(y, g) \/ (y = x /\ g = h)
        BY <4>1, <4>2 DEF Carries, Apart, Keeps
      <4>6. Carried'
        BY <1>1, <4>2, <4>3, <4>5 DEF Carried
      <4>7. Named' /\ Elevated'
        BY <1>1, <4>2 DEF Named, Elevated, Apart, Keeps
      <4> QED
        BY <4>4, <4>6, <4>7 DEF PasskeyInv
    <3> QED
      BY <2>6, <3>1, <3>2 DEF Passkey!ConsumeChallenge
  <2>7. CASE Passkey!LookUp(x)
    <3>1. ASSUME NEW k \in Keys, ceremony' = [ceremony EXCEPT ![x].pc = "create", ![x].key = k]
          PROVE  /\ ceremony' \in CeremonyRuns /\ Apart(x) /\ Keeps(x)
                 /\ ceremony'[x].pc = "create" /\ ceremony'[x].key \in Keys
      <4>1. [ceremony[x] EXCEPT !.pc = "create", !.key = k] \in CeremonyCalls
        BY <2>2 DEF CeremonyCalls
      <4>2. ceremony' = [ceremony EXCEPT ![x] = [ceremony[x] EXCEPT !.pc = "create", !.key = k]]
        BY <1>1, <3>1 DEF CeremonyRuns
      <4>3. ceremony'[x] = [ceremony[x] EXCEPT !.pc = "create", !.key = k]
        BY <1>1, <4>2 DEF CeremonyRuns
      <4>4. ceremony'[x].pc = "create" /\ ceremony'[x].key \in Keys /\ Keeps(x)
        BY <2>2, <4>3 DEF CeremonyCalls, Keeps
      <4> QED
        BY <1>1, <4>1, <4>2, <4>4 DEF CeremonyRuns, Apart
    <3>2. /\ ceremony[x].pc = "lookup" /\ UNCHANGED <<creds, challenge, finished>>
          /\ ceremony' \in CeremonyRuns /\ Apart(x)
          /\ \/ ceremony'[x].pc = "idle"
             \/ Keeps(x) /\ ceremony'[x].pc = "use"
             \/ Keeps(x) /\ ceremony'[x].pc = "create" /\ ceremony[x].type = "registration"
                /\ ceremony'[x].key \in Keys
      BY <2>2, <2>7, <3>1 DEF Passkey!LookUp, Passkey!stored
    <3> QED
      BY <1>5, <3>2
  <2>8. CASE Passkey!CreateCredential(x)
    <3>1. CASE Passkey!End(x) /\ UNCHANGED <<creds, challenge, finished>>
      BY <1>5, <2>2, <3>1
    <3>2. CASE ceremony[x].key \notin creds
      <4>1. PICK h \in Challenges : h = ceremony[x].ch
        BY <1>1, <2>8 DEF Named, Passkey!CreateCredential
      <4> DEFINE Past(y) == /\ ceremony[y].pc \in {"gateFactor", "consume", "lookup", "create"}
                            /\ ceremony[y].type = "registration"
      <4>2. /\ creds' = creds \cup {ceremony[x].key}
            /\ finished' = [finished EXCEPT ![h] = @ + 1]
            /\ ceremony' = [y \in Ceremonies |->
                 IF y = x THEN Passkey!Still
                 ELSE IF Past(y) THEN [ceremony[y] EXCEPT !.crossed = TRUE]
                 ELSE ceremony[y]]
            /\ challenge' = challenge /\ Carries(x, h)
        BY <2>8, <3>2, <4>1 DEF Passkey!CreateCredential, Passkey!Finish, Carries
      <4>3. ASSUME NEW y \in Ceremonies, Past(y)
            PROVE  /\ [ceremony[y] EXCEPT !.crossed = TRUE] \in CeremonyCalls
                   /\ [ceremony[y] EXCEPT !.crossed = TRUE].crossed
                   /\ [ceremony[y] EXCEPT !.crossed = TRUE].pc = ceremony[y].pc
                   /\ [ceremony[y] EXCEPT !.crossed = TRUE].ch = ceremony[y].ch
                   /\ [ceremony[y] EXCEPT !.crossed = TRUE].type = ceremony[y].type
                   /\ [ceremony[y] EXCEPT !.crossed = TRUE].key = ceremony[y].key
        <5>1. ceremony[y] \in CeremonyCalls
          BY <1>1, <4>3, CeremonyMoves
        <5> QED
          BY <5>1 DEF CeremonyCalls
      <4>4. /\ ceremony'[x].pc = "idle"
            /\ \A y \in Ceremonies \ {x} :
                 \/ ceremony'[y] = ceremony[y] /\ ~Past(y)
                 \/ /\ ceremony'[y].crossed /\ ceremony'[y].pc = ceremony[y].pc
                    /\ ceremony'[y].ch = ceremony[y].ch /\ ceremony'[y].type = ceremony[y].type
                    /\ ceremony'[y].key = ceremony[y].key
        BY <4>2, <4>3 DEF Passkey!Still
      <4>5. ceremony' \in CeremonyRuns
        BY <1>1, <4>2, <4>3 DEF CeremonyRuns
      <4>6. creds' \subseteq Keys
        <5>1. ceremony[x].key \in Keys
          BY <1>1, <2>8 DEF Named, Passkey!CreateCredential
        <5> QED
          BY <1>1, <4>2, <5>1
      <4>7. Passkey!PasskeyTypeOK'
        BY <1>1, <4>2, <4>5, <4>6, PasskeyType
      <4>8. \A y \in Ceremonies, g \in Challenges : Carries(y, g)' => y # x /\ Carries(y, g)
        BY <4>4 DEF Carries
      <4>9. Carried'
        BY <1>1, <4>2, <4>8 DEF Carried
      <4>10. Named'
        BY <1>1, <4>4 DEF Named
      <4>11. Elevated'
        BY <4>4 DEF Elevated
      <4> QED
        BY <4>7, <4>9, <4>10, <4>11 DEF PasskeyInv
    <3> QED
      BY <2>8, <3>1, <3>2 DEF Passkey!CreateCredential
  <2>9. CASE Passkey!UseCredential(x)
    <3>1. PICK h \in Challenges : h = ceremony[x].ch
      BY <1>1, <2>9 DEF Named, Passkey!UseCredential
    <3>2. /\ finished' = [finished EXCEPT ![h] = @ + 1] /\ UNCHANGED <<creds, challenge>>
          /\ Carries(x, h)
      BY <2>9, <3>1 DEF Passkey!UseCredential, Passkey!Finish, Carries
    <3>3. ceremony' \in CeremonyRuns /\ Apart(x) /\ ceremony'[x].pc = "idle"
      BY <2>2, <2>9 DEF Passkey!UseCredential
    <3>4. Passkey!PasskeyTypeOK'
      BY <1>1, <3>2, <3>3, PasskeyType
    <3>5. \A y \in Ceremonies, g \in Challenges : Carries(y, g)' => y # x /\ Carries(y, g)
      BY <3>3 DEF Carries, Apart
    <3>6. Carried'
      BY <1>1, <3>2, <3>5 DEF Carried
    <3>7. Named' /\ Elevated'
      BY <1>1, <3>2, <3>3 DEF Named, Elevated, Apart
    <3> QED
      BY <3>4, <3>6, <3>7 DEF PasskeyInv
  <2>10. CASE Passkey!Drop(x)
    BY <1>5, <2>2, <2>10 DEF Passkey!Drop, Passkey!stored
  <2> QED
    BY <1>6, <2>3, <2>4, <2>5, <2>6, <2>7, <2>8, <2>9, <2>10
<1>7. ASSUME NEW k \in Keys, Passkey!DeleteCredential(k)
      PROVE  PasskeyInv'
  <2>1. creds' \subseteq creds /\ UNCHANGED <<challenge, ceremony, finished>>
    BY <1>7 DEF Passkey!DeleteCredential
  <2>2. Passkey!PasskeyTypeOK'
    BY <1>1, <2>1, PasskeyType
  <2> QED
    BY <1>1, <2>1, <2>2 DEF PasskeyInv, Carried, Carries, Named, Elevated
<1>8. ASSUME NEW h \in Challenges, Passkey!ChallengeExpires(h)
      PROVE  PasskeyInv'
  <2>1. challenge' = [challenge EXCEPT ![h] = "none"] /\ UNCHANGED <<creds, ceremony, finished>>
    BY <1>8 DEF Passkey!ChallengeExpires
  <2>2. Passkey!PasskeyTypeOK'
    BY <1>1, <2>1, PasskeyType
  <2>3. Carried'
    BY <1>1, <2>1 DEF Carried, Carries
  <2> QED
    BY <1>1, <2>1, <2>2, <2>3 DEF PasskeyInv, Named, Elevated
<1> QED
  BY <1>3, <1>4, <1>6, <1>7, <1>8 DEF Passkey!PasskeyNext

LEMMA PasskeyAlways == Spec => []PasskeyInv
<1>1. Init => PasskeyInv
  <2> SUFFICES ASSUME Init
               PROVE  PasskeyInv
    OBVIOUS
  <2>1. Passkey!PasskeyInit
    BY DEF Init
  <2>2. Passkey!PasskeyTypeOK
    BY <2>1 DEF Passkey!PasskeyInit, Passkey!PasskeyTypeOK
  <2>3. Carried /\ Named /\ Elevated
    BY <2>1 DEF Passkey!PasskeyInit, Passkey!Still, Carried, Carries, Named, Elevated
  <2> QED
    BY <2>2, <2>3 DEF PasskeyInv
<1>2. PasskeyInv /\ [Next]_vars => PasskeyInv'
  <2>1. PasskeyInv /\ UNCHANGED passkeyVars => PasskeyInv'
    BY DEF passkeyVars, PasskeyInv, Passkey!PasskeyTypeOK, Carried, Carries, Named, Elevated
  <2> QED
    BY <2>1, PartStep, PasskeyStep
<1> QED
  BY <1>1, <1>2, PTL DEF Spec

\* However many requests present it at once, a backup code opens one login and a
\* passkey challenge carries one ceremony.
THEOREM OneUseEach == Spec => []UsedOnce
<1>1. FactorInv /\ PasskeyInv => UsedOnce
  BY DEF FactorInv, FreshCodes, PasskeyInv, Carried, UsedOnce, Factor!BackupCodeOnce,
         Passkey!ChallengeOnce
<1> QED
  BY <1>1, FactorAlways, PasskeyAlways, PTL

\* A passkey joins another one for a caller with a step-up, or for one whose
\* registration had passed its check before the other was stored.
THEOREM StepUpForMore == Spec => FurtherKeysTakeStepUp
<1> DEFINE Joins ==
      \A x \in Ceremonies :
        creds # {} /\ creds' # creds /\ Passkey!In(x, "create") /\ ~Passkey!In(x, "create")'
          /\ ceremony[x].key \in creds' \ creds
        => ceremony[x].elevated \/ ceremony[x].crossed
<1>1. PasskeyInv => Joins
  BY DEF PasskeyInv, Named, Elevated, Passkey!In
<1>2. PasskeyInv /\ [Next]_vars => [Joins]_(Passkey!passkeyVars)
  BY <1>1
<1> HIDE DEF Joins
<1>3. Spec => [][Joins]_(Passkey!passkeyVars)
  BY <1>2, PasskeyAlways, PTL DEF Spec
<1> QED
  BY <1>3 DEF FurtherKeysTakeStepUp, Passkey!FurtherKeysTakeStepUp, Joins

-----------------------------------------------------------------------------
(***************************************************************************)
(* RateLimit                                                               *)
(***************************************************************************)
RateRequests ==
  [pc : {"count"}, process : Processes, window : Rate!Windows, mode : Rate!Classes]

\* What the counting needs of the types.
RateShape ==
  /\ bucket \in [Processes -> [window : Rate!Windows, count : Nat]]
  /\ counter \in [Rate!Windows -> Nat]
  /\ request \in [Slots -> {Rate!NoRequest} \cup RateRequests]
  /\ seen \in [Rate!Domain -> Nat] /\ admitted \in [Rate!Domain -> Nat]
  /\ window \in Rate!Windows

\* The count a limiter would go on from in a window.
Held(keys, buckets, d) ==
  IF d[1] = "shared" THEN keys[d[2]]
  ELSE IF buckets[d[1]].window = d[2] THEN buckets[d[1]].count ELSE 0

\* A limiter counts no request that was not made, and it has counted them all unless
\* it is excused.
Tallied ==
  \A d \in Rate!Domain :
    /\ Held(counter, bucket, d) <= seen[d]
    /\ d \notin excused => seen[d] = Held(counter, bucket, d)

\* A request is let through at most once counted, and within the limit.
Within ==
  \A d \in Rate!Domain \ excused : admitted[d] <= seen[d] /\ admitted[d] <= Limit

Refused == \A d \in refused : d \in Rate!Domain /\ seen[d] > Limit

RateInv == RateShape /\ Tallied /\ Within /\ Refused

LEMMA RateKinds ==
  /\ \A p \in Processes, w \in Rate!Windows :
       <<p, w>> \in Rate!Domain /\ <<p, w>>[1] = p /\ <<p, w>>[2] = w /\ p # "shared"
  /\ \A w \in Rate!Windows :
       <<"shared", w>> \in Rate!Domain /\ <<"shared", w>>[1] = "shared"
       /\ <<"shared", w>>[2] = w
  /\ \A d \in Rate!Domain :
       /\ d = <<d[1], d[2]>> /\ d[2] \in Rate!Windows
       /\ d[1] = "shared" \/ d[1] \in Processes
  /\ 0 \in Rate!Windows
BY PartsAssumption DEF Rate!Domain, Rate!Counters, Rate!Windows

\* The number a limiter holds may be forgotten where it is excused.
LEMMA Forgotten ==
  ASSUME RateInv,
         counter' \in [Rate!Windows -> Nat],
         bucket' \in [Processes -> [window : Rate!Windows, count : Nat]],
         request' \in [Slots -> {Rate!NoRequest} \cup RateRequests],
         window' \in Rate!Windows,
         UNCHANGED <<seen, admitted>>, refused' = {}, excused \subseteq excused',
         \A d \in Rate!Domain :
           Held(counter', bucket', d) = Held(counter, bucket, d)
           \/ (Held(counter', bucket', d) = 0 /\ (d \in excused' \/ seen[d] = 0))
  PROVE  RateInv'
<1>1. RateShape'
  BY DEF RateInv, RateShape
<1>2. Tallied'
  <2> SUFFICES ASSUME NEW d \in Rate!Domain
               PROVE  /\ Held(counter', bucket', d) <= seen[d]
                      /\ d \notin excused' => seen[d] = Held(counter', bucket', d)
    BY DEF Tallied
  <2>1. seen[d] \in Nat
    BY DEF RateInv, RateShape
  <2>2. /\ Held(counter, bucket, d) <= seen[d]
        /\ d \notin excused => seen[d] = Held(counter, bucket, d)
    BY DEF RateInv, Tallied
  <2> QED
    BY <2>1, <2>2
<1>3. Within'
  BY DEF RateInv, Within
<1> QED
  BY <1>1, <1>2, <1>3 DEF RateInv, Refused

LEMMA SameCount ==
  ASSUME UNCHANGED <<counter, bucket>>, NEW d
  PROVE  Held(counter', bucket', d) = Held(counter, bucket, d)
BY DEF Held

\* A request is counted as the next of its limiter and window.
LEMMA Counted ==
  ASSUME RateInv, NEW d \in Rate!Domain, NEW count \in Nat,
         counter' \in [Rate!Windows -> Nat],
         bucket' \in [Processes -> [window : Rate!Windows, count : Nat]],
         request' \in [Slots -> {Rate!NoRequest} \cup RateRequests],
         UNCHANGED window, excused \subseteq excused',
         seen' = [seen EXCEPT ![d] = @ + 1],
         count <= seen[d] + 1, d \notin excused' => count = seen[d] + 1,
         Held(counter', bucket', d) = count,
         \A e \in Rate!Domain \ {d} :
           Held(counter', bucket', e) = Held(counter, bucket, e)
           \/ (Held(counter', bucket', e) = 0 /\ (e \in excused' \/ seen[e] = 0)),
         \/ /\ admitted' = [admitted EXCEPT ![d] = IF Rate!Decide(count) THEN @ + 1 ELSE @]
            /\ refused' = IF Rate!Decide(count) THEN {} ELSE {d}
         \/ /\ admitted' = [admitted EXCEPT ![d] = @] /\ refused' = {}
         \/ /\ d \in excused' /\ refused' = {}
            /\ admitted' = [admitted EXCEPT ![d] = @ + 1]
  PROVE  RateInv'
<1>1. /\ seen \in [Rate!Domain -> Nat] /\ admitted \in [Rate!Domain -> Nat]
      /\ seen[d] \in Nat /\ admitted[d] \in Nat /\ Limit \in Nat
  BY PartsAssumption DEF RateInv, RateShape
<1>2. /\ seen' \in [Rate!Domain -> Nat] /\ seen'[d] = seen[d] + 1
      /\ \A e \in Rate!Domain \ {d} : seen'[e] = seen[e]
  BY <1>1
<1>3. /\ admitted' \in [Rate!Domain -> Nat] /\ admitted'[d] \in {admitted[d], admitted[d] + 1}
      /\ \A e \in Rate!Domain \ {d} : admitted'[e] = admitted[e]
      /\ d \notin excused' => admitted'[d] = admitted[d] \/ count <= Limit
  BY <1>1 DEF Rate!Decide
<1>4. RateShape'
  BY <1>2, <1>3 DEF RateInv, RateShape
<1>5. Tallied'
  <2> SUFFICES ASSUME NEW e \in Rate!Domain
               PROVE  /\ Held(counter', bucket', e) <= seen'[e]
                      /\ e \notin excused' => seen'[e] = Held(counter', bucket', e)
    BY DEF Tallied
  <2>1. /\ Held(counter, bucket, e) <= seen[e]
        /\ e \notin excused => seen[e] = Held(counter, bucket, e)
        /\ seen[e] \in Nat
    BY <1>1 DEF RateInv, Tallied
  <2>2. CASE e = d
    BY <1>1, <1>2, <2>2
  <2>3. CASE e # d
    BY <1>2, <2>1, <2>3
  <2> QED
    BY <2>2, <2>3
<1>6. Within'
  <2> SUFFICES ASSUME NEW e \in Rate!Domain \ excused'
               PROVE  admitted'[e] <= seen'[e] /\ admitted'[e] <= Limit
    BY DEF Within
  <2>1. admitted[e] <= seen[e] /\ admitted[e] <= Limit /\ e \notin excused
    BY DEF RateInv, Within
  <2>2. CASE e = d
    BY <1>1, <1>2, <1>3, <2>1, <2>2
  <2>3. CASE e # d
    BY <1>2, <1>3, <2>1, <2>3
  <2> QED
    BY <2>2, <2>3
<1>7. Refused'
  BY <1>1, <1>2 DEF Refused, Rate!Decide
<1> QED
  BY <1>4, <1>5, <1>6, <1>7 DEF RateInv

LEMMA RateStep ==
  ASSUME RateInv, Rate!RateNext
  PROVE  RateInv'
<1> USE DEF Rate!NoBucket
<1>0. RateShape
  BY DEF RateInv
<1>n. Rate!NoBucket \in [window : Rate!Windows, count : Nat]
  BY RateKinds
<1>1. ASSUME NEW f, Rate!Configure(f) PROVE RateInv'
  BY <1>0, <1>1, Forgotten, SameCount DEF Rate!Configure, RateShape
<1>2. ASSUME NEW p \in Processes, Rate!Start(p) PROVE RateInv'
  BY <1>0, <1>2, Forgotten, SameCount DEF Rate!Start, RateShape
<1>3. ASSUME NEW p \in Processes, Rate!Stop(p) PROVE RateInv'
  <2>1. /\ bucket' \in [Processes -> [window : Rate!Windows, count : Nat]]
        /\ bucket'[p] = Rate!NoBucket /\ \A q \in Processes \ {p} : bucket'[q] = bucket[q]
    BY <1>0, <1>3, <1>n DEF Rate!Stop, RateShape
  <2>2. request' \in [Slots -> {Rate!NoRequest} \cup RateRequests]
    BY <1>0, <1>3 DEF Rate!Stop, RateShape
  <2>3. ASSUME NEW d \in Rate!Domain, d[1] = p
        PROVE  Held(counter', bucket', d) = 0 /\ (d \in excused' \/ seen[d] = 0)
    <3>1. Held(counter', bucket', d) = 0
      BY <2>1, <2>3, RateKinds DEF Held
    <3>2. seen[d] \in Nat
      BY <1>0 DEF RateShape
    <3> QED
      BY <1>3, <2>3, <3>1, <3>2 DEF Rate!Stop, Rate!Seen
  <2>4. ASSUME NEW d \in Rate!Domain, d[1] # p
        PROVE  Held(counter', bucket', d) = Held(counter, bucket, d)
    BY <1>3, <2>1, <2>4, RateKinds DEF Held, Rate!Stop
  <2> QED
    BY <1>0, <1>3, <2>1, <2>2, <2>3, <2>4, Forgotten DEF Rate!Stop, RateShape
<1>4. ASSUME NEW p \in Processes, Rate!Sweep(p) PROVE RateInv'
  <2>1. /\ bucket' \in [Processes -> [window : Rate!Windows, count : Nat]]
        /\ bucket'[p] = Rate!NoBucket /\ \A q \in Processes \ {p} : bucket'[q] = bucket[q]
        /\ bucket[p].window \in Rate!Windows /\ bucket[p].window < window
        /\ window \in Rate!Windows
    BY <1>0, <1>4, <1>n DEF Rate!Sweep, Rate!Expired, RateShape
  <2>3. ASSUME NEW d \in Rate!Domain, d[1] = p
        PROVE  Held(counter', bucket', d) = 0 /\ (d \in excused' \/ seen[d] = 0)
    <3>1. Held(counter', bucket', d) = 0
      BY <2>1, <2>3, RateKinds DEF Held
    <3>2. seen[d] \in Nat
      BY <1>0 DEF RateShape
    <3>3. CASE d[2] < window
      BY <1>4, <2>3, <3>1, <3>2, <3>3 DEF Rate!Sweep, Rate!Seen
    <3>4. CASE ~(d[2] < window)
      <4>1. d[1] # "shared" /\ bucket[d[1]].window # d[2]
        BY <2>1, <2>3, <3>4, RateKinds
      <4>2. Held(counter, bucket, d) = 0
        BY <4>1 DEF Held
      <4>3. d \in excused \/ seen[d] = 0
        BY <4>2 DEF RateInv, Tallied
      <4> QED
        BY <1>4, <3>1, <4>3 DEF Rate!Sweep
    <3> QED
      BY <3>3, <3>4
  <2>4. ASSUME NEW d \in Rate!Domain, d[1] # p
        PROVE  Held(counter', bucket', d) = Held(counter, bucket, d)
    BY <1>4, <2>1, <2>4, RateKinds DEF Held, Rate!Sweep
  <2> QED
    BY <1>0, <1>4, <2>1, <2>3, <2>4, Forgotten DEF Rate!Sweep, RateShape
<1>5. ASSUME Rate!RedisGoes PROVE RateInv'
  BY <1>0, <1>5, Forgotten, SameCount DEF Rate!RedisGoes, RateShape
<1>6. ASSUME NEW kept \in BOOLEAN, Rate!RedisReturns(kept) PROVE RateInv'
  <2>1. CASE kept
    BY <1>0, <1>6, <2>1, Forgotten, SameCount DEF Rate!RedisReturns, RateShape
  <2>2. CASE ~kept
    <3>1. /\ counter' = [w \in Rate!Windows |-> 0] /\ UNCHANGED bucket
          /\ excused' = excused \cup Rate!Seen("shared")
      BY <1>6, <2>2 DEF Rate!RedisReturns
    <3>2. ASSUME NEW d \in Rate!Domain
          PROVE  \/ Held(counter', bucket', d) = Held(counter, bucket, d)
                 \/ Held(counter', bucket', d) = 0 /\ (d \in excused' \/ seen[d] = 0)
      <4>1. seen[d] \in Nat
        BY <1>0 DEF RateShape
      <4> QED
        BY <3>1, <4>1, RateKinds DEF Held, Rate!Seen
    <3> QED
      BY <1>0, <1>6, <3>1, <3>2, Forgotten DEF Rate!RedisReturns, RateShape
  <2> QED
    BY <2>1, <2>2
<1>7. ASSUME Rate!WindowTurns PROVE RateInv'
  <2>1. window' \in Rate!Windows
    BY <1>0, <1>7, PartsAssumption DEF Rate!WindowTurns, RateShape, Rate!Windows
  <2> QED
    BY <1>0, <1>7, <2>1, Forgotten, SameCount DEF Rate!WindowTurns, RateShape
<1>8. ASSUME NEW w \in Rate!Windows, Rate!KeyExpires(w) PROVE RateInv'
  <2>1. /\ counter' \in [Rate!Windows -> Nat] /\ counter'[w] = 0 /\ UNCHANGED bucket
        /\ \A v \in Rate!Windows \ {w} : counter'[v] = counter[v]
        /\ excused' = excused \cup {<<"shared", w>>}
    BY <1>0, <1>8 DEF Rate!KeyExpires, RateShape
  <2>2. ASSUME NEW d \in Rate!Domain
        PROVE  \/ Held(counter', bucket', d) = Held(counter, bucket, d)
               \/ Held(counter', bucket', d) = 0 /\ (d \in excused' \/ seen[d] = 0)
    BY <2>1, RateKinds DEF Held
  <2> QED
    BY <1>0, <1>8, <2>1, <2>2, Forgotten DEF Rate!KeyExpires, RateShape
<1>9. ASSUME NEW s \in Slots, NEW p \in Processes, NEW mode \in Rate!Classes,
             Rate!Arrive(s, p, mode)
      PROVE  RateInv'
  <2>1. request' \in [Slots -> {Rate!NoRequest} \cup RateRequests]
    BY <1>0, <1>9 DEF Rate!Arrive, RateShape, RateRequests
  <2> QED
    BY <1>0, <1>9, <2>1, Forgotten, SameCount DEF Rate!Arrive, RateShape
<1>r. ASSUME NEW s \in Slots, request[s] # Rate!NoRequest
      PROVE  /\ request[s].process \in Processes /\ request[s].window \in Rate!Windows
             /\ [request EXCEPT ![s] = Rate!NoRequest]
                  \in [Slots -> {Rate!NoRequest} \cup RateRequests]
  BY <1>0, <1>r DEF RateShape, RateRequests
<1>10. ASSUME NEW s \in Slots, Rate!MemoryAllow(s) PROVE RateInv'
  <2> DEFINE p == request[s].process
             w == request[s].window
             same == Rate!SameWindow(bucket[p], w)
             count == IF same THEN bucket[p].count + 1 ELSE 1
             d == <<p, w>>
  <2>1. /\ p \in Processes /\ w \in Rate!Windows /\ d \in Rate!Domain /\ d[1] = p /\ d[2] = w
        /\ p # "shared" /\ request' \in [Slots -> {Rate!NoRequest} \cup RateRequests]
    BY <1>r, <1>10, RateKinds DEF Rate!MemoryAllow, Rate!Answer
  <2>2. /\ bucket[p] \in [window : Rate!Windows, count : Nat] /\ count \in Nat
        /\ seen[d] \in Nat
    BY <1>0, <2>1 DEF RateShape
  <2>3. /\ bucket' = [bucket EXCEPT ![p] = [window |-> w, count |-> count]]
        /\ excused' = IF same \/ bucket[p] = Rate!NoBucket THEN excused
                      ELSE excused \cup Rate!Seen(p)
        /\ Rate!Answer(s, d, count)
        /\ UNCHANGED <<window, counter>>
    BY <1>10 DEF Rate!MemoryAllow
  <2> HIDE DEF p, w, count, d
  <2>4. /\ bucket' \in [Processes -> [window : Rate!Windows, count : Nat]]
        /\ bucket'[p].window = w /\ bucket'[p].count = count
        /\ \A q \in Processes \ {p} : bucket'[q] = bucket[q]
    BY <1>0, <2>1, <2>2, <2>3 DEF RateShape
  <2>5. Held(counter', bucket', d) = count
    BY <2>1, <2>4 DEF Held
  <2>6. /\ Held(counter, bucket, d) <= seen[d]
        /\ d \notin excused => seen[d] = Held(counter, bucket, d)
    BY <2>1 DEF RateInv, Tallied
  <2>7. Held(counter, bucket, d) = IF same THEN bucket[p].count ELSE 0
    BY <2>1 DEF Held, Rate!SameWindow
  <2>8. count = Held(counter, bucket, d) + 1
    BY <2>2, <2>7 DEF count
  <2>9. count <= seen[d] + 1 /\ (d \notin excused' => count = seen[d] + 1)
    BY <2>2, <2>3, <2>6, <2>7, <2>8
  <2>10. ASSUME NEW e \in Rate!Domain \ {d}
         PROVE  \/ Held(counter', bucket', e) = Held(counter, bucket, e)
                \/ Held(counter', bucket', e) = 0 /\ (e \in excused' \/ seen[e] = 0)
    <3>1. CASE e[1] # p
      BY <2>3, <2>4, <3>1, RateKinds DEF Held
    <3>2. CASE e[1] = p
      <4>1. e[2] # w /\ Held(counter', bucket', e) = 0
        BY <2>1, <2>4, <3>2, RateKinds DEF Held, d
      <4>2. Held(counter, bucket, e) = IF bucket[p].window = e[2] THEN bucket[p].count ELSE 0
        BY <2>1, <3>2 DEF Held
      <4>3. seen[e] \in Nat /\ (e \notin excused => seen[e] = Held(counter, bucket, e))
        BY <1>0 DEF RateInv, Tallied, RateShape
      <4>4. CASE same \/ bucket[p] = Rate!NoBucket
        <5>1. Held(counter, bucket, e) = 0
          BY <4>1, <4>2, <4>4 DEF Rate!SameWindow
        <5> QED
          BY <2>3, <4>1, <4>3, <5>1
      <4>5. CASE ~(same \/ bucket[p] = Rate!NoBucket)
        BY <2>3, <3>2, <4>1, <4>3, <4>5 DEF Rate!Seen
      <4> QED
        BY <4>4, <4>5
    <3> QED
      BY <3>1, <3>2
  <2> QED
    BY <1>0, <2>1, <2>2, <2>3, <2>4, <2>5, <2>9, <2>10, Counted DEF Rate!Answer, RateShape
<1>c. ASSUME NEW w \in Rate!Windows, counter' = [counter EXCEPT ![w] = @ + 1], UNCHANGED bucket
      PROVE  /\ counter' \in [Rate!Windows -> Nat] /\ counter[w] \in Nat
             /\ Held(counter', bucket', <<"shared", w>>) = counter[w] + 1
             /\ Held(counter, bucket, <<"shared", w>>) = counter[w]
             /\ <<"shared", w>> \in Rate!Domain
             /\ \A e \in Rate!Domain \ {<<"shared", w>>} :
                  Held(counter', bucket', e) = Held(counter, bucket, e)
  BY <1>0, <1>c, RateKinds DEF RateShape, Held
<1>11. ASSUME NEW s \in Slots, Rate!RedisAllow(s) PROVE RateInv'
  <2> DEFINE w == request[s].window
             d == <<"shared", w>>
  <2>1. w \in Rate!Windows /\ request' \in [Slots -> {Rate!NoRequest} \cup RateRequests]
    BY <1>r, <1>11 DEF Rate!RedisAllow, Rate!Answer
  <2>2. /\ counter' = [counter EXCEPT ![w] = @ + 1] /\ UNCHANGED <<bucket, window, excused>>
        /\ Rate!Answer(s, d, counter[w] + 1)
    BY <1>11 DEF Rate!RedisAllow
  <2> HIDE DEF w
  <2>3. /\ Held(counter, bucket, d) <= seen[d]
        /\ d \notin excused => seen[d] = Held(counter, bucket, d)
        /\ seen[d] \in Nat
    BY <1>0, <1>c, <2>1, <2>2 DEF RateInv, Tallied, RateShape
  <2>h. Held(counter, bucket, d) = counter[w] /\ counter[w] \in Nat
    BY <1>c, <2>1, <2>2
  <2>4. counter[w] + 1 <= seen[d] + 1 /\ (d \notin excused => counter[w] + 1 = seen[d] + 1)
        /\ counter[w] + 1 \in Nat
    BY <2>3, <2>h
  <2> QED
    BY <1>0, <1>c, <2>1, <2>2, <2>4, Counted DEF Rate!Answer, RateShape
<1>12. ASSUME NEW s \in Slots, Rate!LimiterFails(s) PROVE RateInv'
  <2> DEFINE w == request[s].window
             d == <<"shared", w>>
             open == request[s].mode = "fail_open"
  <2>1. w \in Rate!Windows /\ request' \in [Slots -> {Rate!NoRequest} \cup RateRequests]
    BY <1>r, <1>12 DEF Rate!LimiterFails
  <2>2. /\ \/ UNCHANGED <<counter, seen>>
           \/ counter' = [counter EXCEPT ![w] = @ + 1] /\ seen' = [seen EXCEPT ![d] = @ + 1]
        /\ admitted' = [admitted EXCEPT ![d] = IF open THEN @ + 1 ELSE @]
        /\ excused' = IF open THEN excused \cup {d} ELSE excused
        /\ refused' = {} /\ UNCHANGED <<bucket, window>>
    BY <1>12 DEF Rate!LimiterFails, Rate!Passes
  <2> HIDE DEF w, open
  <2>3. d \in Rate!Domain
    BY <2>1, RateKinds
  <2>4. CASE counter' = [counter EXCEPT ![w] = @ + 1] /\ seen' = [seen EXCEPT ![d] = @ + 1]
    <3>1. /\ Held(counter, bucket, d) <= seen[d]
          /\ d \notin excused => seen[d] = Held(counter, bucket, d)
          /\ seen[d] \in Nat
      BY <1>0, <2>3 DEF RateInv, Tallied, RateShape
    <3>h. Held(counter, bucket, d) = counter[w] /\ counter[w] \in Nat
      BY <1>c, <2>1, <2>2, <2>4
    <3>2. counter[w] + 1 <= seen[d] + 1 /\ (d \notin excused => counter[w] + 1 = seen[d] + 1)
          /\ counter[w] + 1 \in Nat
      BY <3>1, <3>h
    <3> QED
      BY <1>0, <1>c, <2>1, <2>2, <2>3, <2>4, <3>2, Counted DEF RateShape
  <2>5. CASE UNCHANGED <<counter, seen>>
    <3>1. /\ admitted' \in [Rate!Domain -> Nat]
          /\ \A e \in Rate!Domain \ {d} : admitted'[e] = admitted[e]
          /\ d \notin excused' => admitted'[d] = admitted[d]
      BY <1>0, <2>2, <2>3 DEF RateShape
    <3>2. RateShape' /\ Tallied'
      BY <1>0, <2>1, <2>2, <2>5, <3>1, SameCount DEF RateInv, RateShape, Tallied
    <3>3. Within' /\ Refused'
      BY <2>2, <2>5, <3>1 DEF RateInv, Within, Refused
    <3> QED
      BY <3>2, <3>3 DEF RateInv
  <2> QED
    BY <2>2, <2>4, <2>5
<1> QED
  BY <1>1, <1>2, <1>3, <1>4, <1>5, <1>6, <1>7, <1>8, <1>9, <1>10, <1>11, <1>12
     DEF Rate!RateNext

LEMMA RateAlways == Spec => []RateInv
<1>1. Init => RateInv
  <2> SUFFICES ASSUME Rate!RateInit PROVE RateInv
    BY DEF Init
  <2>1. RateShape
    BY RateKinds DEF Rate!RateInit, RateShape, Rate!NoBucket
  <2>2. \A d \in Rate!Domain : Held(counter, bucket, d) = 0
    BY RateKinds DEF Rate!RateInit, Held, Rate!NoBucket
  <2> QED
    BY <2>1, <2>2, PartsAssumption DEF Rate!RateInit, RateInv, Tallied, Within, Refused
<1>2. RateInv /\ [Next]_vars => RateInv'
  <2> SUFFICES ASSUME RateInv, [Next]_vars PROVE RateInv'
    OBVIOUS
  <2>1. CASE UNCHANGED rateVars
    BY <2>1, SameCount DEF rateVars, RateInv, RateShape, Tallied, Within, Refused
  <2> QED
    BY <2>1, PartStep, RateStep
<1> QED
  BY <1>1, <1>2, PTL DEF Spec

\* A rate limiter, Redis for all processes together or the memory of one, lets at most
\* Limit requests of a window through and refuses one only after Limit others, for
\* any number of processes and requests, any limit and any number of windows, unless
\* a fault or a late request has cost it the count (MemoryLimiter.Allow,
\* RedisLimiter.Allow).
THEOREM LimitKept == Spec => []CountsHold
<1>1. RateInv => CountsHold
  BY DEF RateInv, Within, Refused, CountsHold, Rate!CountsHold
<1> QED
  BY <1>1, RateAlways, PTL

-----------------------------------------------------------------------------
(***************************************************************************)
(* QuotaAlerts                                                             *)
(***************************************************************************)
Reading == {"get", "select", "fill", "use"}
QuotaRecords ==
  [pc : Reading \cup {"reserve", "row", "release", "del"}, op : Quota!Writers \cup {"read"},
   size : Nat, before : Nat \cup {Quota!None}, value : Nat \cup {Quota!None},
   stage : {"before", "after", "undo", "prune", "end"}]
\* A request that only reads is in no other place.
QuotaCalls ==
  {r \in QuotaRecords : r.op = "read" => r.pc \in Reading /\ r.stage = "end"}

QuotaShape ==
  /\ usage \in Nat /\ stored \in Nat /\ cache \in Nat \cup {Quota!None}
  /\ call \in [Callers -> {Quota!NoCall} \cup QuotaCalls]
  /\ untold \in BOOLEAN

Writer(r) == r # Quota!NoCall /\ r.op \in Quota!Writers

\* The last notification is right about a usage.
Agrees(said, bytes) == said = "exhausted" <=> Quota!Exhausted(bytes)

\* What the user has been told by then, when nothing has gone wrong: of the usage as
\* it is, or as it was before the request, until the request compares the two.
UploadOwes(r, said, bytes) ==
  LET past == Quota!Minus(bytes, r.size)
  IN  \/ /\ \/ r.pc = "reserve" /\ r.stage = "after"
            \/ r.pc = "del" /\ r.stage = "undo"
         /\ Agrees(said, bytes)
      \/ /\ \/ r.pc \in {"del", "row"} /\ r.stage = "after"
            \/ r.pc = "release" /\ r.stage \in {"undo", "prune"}
         /\ Agrees(said, past)
      \/ /\ \/ r.pc \in Reading /\ r.stage = "end"
            \/ r.pc = "del" /\ r.stage = "prune"
         /\ said = "exhausted" => Quota!Exhausted(bytes)
         /\ said # "exhausted" => ~Quota!Exhausted(past)

DeleteOwes(r, said, bytes) ==
  \/ /\ r.stage = "before" /\ r.pc \in Reading \cup {"release"}
     /\ Agrees(said, bytes)
     /\ r.pc = "release" => r.before = bytes
  \/ /\ \/ r.stage = "before" /\ r.pc = "del"
        \/ r.stage = "end" /\ r.pc \in Reading
     /\ r.before \in Nat /\ bytes <= r.before
     /\ Agrees(said, r.before)

Owes(r, said, bytes) ==
  /\ r.pc \in {"fill", "use"} => r.value = bytes
  /\ r.op = "upload" => UploadOwes(r, said, bytes)
  /\ r.op = "delete" => DeleteOwes(r, said, bytes)
  /\ r.op = "recalculate" =>
       r.stage = "before" /\ r.pc \in Reading \cup {"release", "del"} /\ Agrees(said, bytes)

OneWriter == \A c, d \in Callers : Writer(call[c]) /\ Writer(call[d]) => c = d

\* The cached entry is out of date only until the Del of the request that wrote.
CacheFresh ==
  \/ cache \in {Quota!None, usage}
  \/ \E c \in Callers : Writer(call[c]) /\ call[c].pc = "del"

ToldSoFar ==
  /\ \A c \in Callers : Writer(call[c]) => Owes(call[c], told, usage)
  /\ (\A c \in Callers : ~Writer(call[c])) => Agrees(told, usage)

QuotaInv == QuotaShape /\ (~untold => OneWriter /\ CacheFresh /\ ToldSoFar)

\* The percentage does not fall when the bytes rise, so neither does being exhausted.
LEMMA MoreIsNotLess ==
  ASSUME NEW a \in Nat, NEW b \in Nat, a <= b, Quota!Exhausted(a)
  PROVE  Quota!Exhausted(b)
<1> DEFINE p == (a * 100) \div StorageLimit
           q == (b * 100) \div StorageLimit
<1>0. StorageLimit \in Nat \ {0} /\ ExhaustedThreshold \in 1..100
  BY PartsAssumption
<1>1. ASSUME NEW n \in Nat, NEW k \in Nat \ {0}
      PROVE  /\ n \div k \in Nat
             /\ k * (n \div k) <= n /\ n < k * (n \div k) + k
  BY <1>1
<1>2. /\ p \in Nat /\ q \in Nat
      /\ StorageLimit * p <= a * 100
      /\ b * 100 < StorageLimit * q + StorageLimit
  BY <1>0, <1>1
<1>3. p <= q
  <2> HIDE DEF p, q
  <2>1. a * 100 <= b * 100
    OBVIOUS
  <2>2. StorageLimit * p < StorageLimit * q + StorageLimit
    BY <1>0, <1>2, <2>1
  <2>3. ASSUME NEW k \in Nat \ {0}, NEW x \in Nat, NEW y \in Nat, x >= y + 1
        PROVE  k * x >= k * y + k
    BY <2>3
  <2> QED
    BY <1>0, <1>2, <2>2, <2>3
<1> QED
  BY <1>0, <1>2, <1>3 DEF Quota!Exhausted, Quota!Percent

LEMMA NoneIsExhausted == ~Quota!Exhausted(0)
BY PartsAssumption DEF Quota!Exhausted, Quota!Percent

LEMMA MinusBytes ==
  ASSUME NEW a \in Nat, NEW b \in Nat
  PROVE  /\ Quota!Minus(a, b) \in Nat /\ Quota!Minus(a, b) <= a
         /\ Quota!Minus(a + b, b) = a
         /\ \A n \in Nat : n <= a => Quota!Minus(n, b) <= Quota!Minus(a, b)
BY DEF Quota!Minus

\* One caller's request changes.
Turns(c, r) ==
  /\ call' \in [Callers -> {Quota!NoCall} \cup QuotaCalls]
  /\ call'[c] = r
  /\ \A d \in Callers \ {c} : call'[d] = call[d]

LEMMA CallTurns ==
  ASSUME QuotaShape, NEW c \in Callers, NEW r \in {Quota!NoCall} \cup QuotaCalls,
         Quota!Set(c, r)
  PROVE  Turns(c, r)
BY DEF QuotaShape, Quota!Set, Turns

\* A reader changes nothing but the cache.
LEMMA ReaderMoves ==
  ASSUME QuotaInv, NEW c \in Callers, NEW r, Turns(c, r),
         ~Writer(call[c]), ~Writer(r),
         UNCHANGED <<usage, told>>, stored' \in Nat, untold' \in BOOLEAN,
         ~untold' => ~untold /\ cache' \in {cache, Quota!None, usage},
         cache' \in Nat \cup {Quota!None}
  PROVE  QuotaInv'
<1>1. QuotaShape'
  BY DEF QuotaInv, QuotaShape, Turns
<1>2. ASSUME ~untold' PROVE OneWriter' /\ CacheFresh' /\ ToldSoFar'
  <2>1. \A d \in Callers : Writer(call'[d]) <=> Writer(call[d])
    BY DEF Turns
  <2>2. \A d \in Callers : Writer(call[d]) => call'[d] = call[d]
    BY DEF Turns
  <2>3. OneWriter /\ CacheFresh /\ ToldSoFar
    BY <1>2 DEF QuotaInv
  <2>4. OneWriter'
    BY <2>1, <2>3 DEF OneWriter
  <2>5. CacheFresh'
    BY <1>2, <2>1, <2>2, <2>3 DEF CacheFresh
  <2>6. ToldSoFar'
    BY <2>1, <2>2, <2>3 DEF ToldSoFar
  <2> QED
    BY <2>4, <2>5, <2>6
<1> QED
  BY <1>1, <1>2 DEF QuotaInv

\* The one writer moves on or returns.
LEMMA WriterMoves ==
  ASSUME QuotaInv, NEW c \in Callers, NEW r, Turns(c, r),
         usage' \in Nat, stored' \in Nat, cache' \in Nat \cup {Quota!None}, untold' \in BOOLEAN,
         ~untold' =>
           /\ ~untold
           /\ \A d \in Callers \ {c} : ~Writer(call[d])
           /\ cache' \in {Quota!None, usage'} \/ (Writer(r) /\ r.pc = "del")
           /\ Writer(r) => Owes(r, told', usage')
           /\ ~Writer(r) => Agrees(told', usage')
  PROVE  QuotaInv'
<1>1. QuotaShape'
  BY DEF QuotaInv, QuotaShape, Turns
<1>2. ASSUME ~untold' PROVE OneWriter' /\ CacheFresh' /\ ToldSoFar'
  <2>1. \A d \in Callers \ {c} : ~Writer(call'[d])
    BY <1>2 DEF Turns
  <2>2. call'[c] = r
    BY DEF Turns
  <2>4. OneWriter'
    BY <2>1 DEF OneWriter
  <2>5. CacheFresh'
    BY <1>2, <2>2 DEF CacheFresh
  <2>6. ToldSoFar'
    BY <1>2, <2>1, <2>2 DEF ToldSoFar
  <2> QED
    BY <2>4, <2>5, <2>6
<1> QED
  BY <1>1, <1>2 DEF QuotaInv

\* What a request under way is about.
LEMMA CallKinds ==
  ASSUME QuotaInv, NEW c \in Callers, Quota!Busy(c)
  PROVE  /\ call[c] \in QuotaCalls /\ call[c] # Quota!NoCall
         /\ Writer(call[c]) <=> call[c].op \in Quota!Writers
         /\ ~Writer(call[c]) <=> call[c].op = "read"
         /\ Quota!Writes(c) <=> Writer(call[c])
BY DEF QuotaInv, QuotaShape, Quota!Busy, QuotaCalls, QuotaRecords, Writer, Quota!Writes,
   Quota!Writers

LEMMA WriterKnows ==
  ASSUME QuotaInv, NEW c \in Callers, Writer(call[c]), ~untold
  PROVE  /\ \A d \in Callers \ {c} : ~Writer(call[d])
         /\ Owes(call[c], told, usage)
         /\ call[c].pc # "del" => cache \in {Quota!None, usage}
BY DEF QuotaInv, OneWriter, CacheFresh, ToldSoFar

LEMMA NextCall ==
  ASSUME NEW o \in QuotaCalls
  PROVE  /\ Quota!NoCall \notin QuotaCalls
         /\ \A r \in QuotaCalls : r.op = o.op => (Writer(r) <=> Writer(o))
<1>1. Quota!NoCall \notin QuotaCalls
  BY DEF QuotaCalls, QuotaRecords, Quota!NoCall
<1> QED
  BY <1>1 DEF Writer

\* A request comes in.
LEMMA QuotaBegins ==
  ASSUME QuotaInv, NEW c \in Callers, NEW r \in QuotaCalls, Quota!Begin(c, r), stored' \in Nat,
         r.op # "read" =>
           /\ r.op = "upload" => r.pc = "reserve" /\ r.stage = "after"
           /\ r.op # "upload" => r.pc = "get" /\ r.stage = "before"
  PROVE  QuotaInv'
<1>0. /\ QuotaShape /\ call[c] = Quota!NoCall /\ ~Writer(call[c])
      /\ UNCHANGED <<usage, cache, told>>
      /\ \A d \in Callers : Quota!Writes(d) <=> Writer(call[d])
  BY DEF QuotaInv, Quota!Begin, Quota!Busy, Writer, Quota!Writes
<1>1. Turns(c, r)
  BY <1>0, CallTurns DEF Quota!Begin
<1>2. untold' \in BOOLEAN
  BY <1>0 DEF QuotaShape, Quota!Begin
<1>3. CASE r.op = "read"
  <2>1. ~Writer(r)
    BY <1>3 DEF Writer, Quota!Writers
  <2>2. ~untold' => ~untold
    BY DEF Quota!Begin
  <2> QED
    BY <1>0, <1>1, <1>2, <2>1, <2>2, ReaderMoves DEF QuotaShape
<1>4. CASE r.op # "read"
  <2>1. r.op \in Quota!Writers /\ Writer(r)
    BY <1>4, NextCall DEF QuotaCalls, QuotaRecords, Writer
  <2>2. ASSUME ~untold'
        PROVE  /\ ~untold /\ \A d \in Callers : ~Writer(call[d])
               /\ cache \in {Quota!None, usage} /\ Agrees(told, usage)
    <3>1. ~untold /\ \A d \in Callers : ~Writer(call[d])
      BY <1>0, <2>1, <2>2 DEF Quota!Begin
    <3> QED
      BY <3>1 DEF QuotaInv, CacheFresh, ToldSoFar
  <2>3. ASSUME ~untold' PROVE Owes(r, told, usage)
    BY <1>4, <2>1, <2>2, <2>3
       DEF Owes, UploadOwes, DeleteOwes, Quota!Writers, Reading
  <2> QED
    BY <1>0, <1>1, <1>2, <2>1, <2>2, <2>3, WriterMoves DEF QuotaShape
<1> QED
  BY <1>3, <1>4

LEMMA QuotaStep ==
  ASSUME QuotaInv, Quota!QuotaNext
  PROVE  QuotaInv'
<1>0. QuotaShape /\ Sizes \subseteq Nat
  BY PartsAssumption DEF QuotaInv
<1>1. ASSUME NEW op \in Quota!Writers \cup {"read"}, NEW pc \in {"get", "reserve"},
             NEW size \in Nat, NEW stage \in {"before", "after", "end"},
             op = "read" => pc = "get" /\ stage = "end"
      PROVE  /\ Quota!Request(op, pc, size, stage) \in QuotaCalls
             /\ Quota!Request(op, pc, size, stage).op = op
             /\ Quota!Request(op, pc, size, stage).pc = pc
             /\ Quota!Request(op, pc, size, stage).stage = stage
  BY <1>1 DEF Quota!Request, QuotaCalls, QuotaRecords, Reading
<1>2. ASSUME NEW c \in Callers, Quota!GetQuota(c) PROVE QuotaInv'
  BY <1>0, <1>1, <1>2, QuotaBegins DEF Quota!GetQuota, QuotaShape
<1>3. ASSUME NEW c \in Callers, Quota!RecalculateUsage(c) PROVE QuotaInv'
  BY <1>0, <1>1, <1>3, QuotaBegins DEF Quota!RecalculateUsage, QuotaShape, Quota!Writers
<1>4. ASSUME NEW c \in Callers, NEW size \in Sizes, Quota!Upload(c, size) PROVE QuotaInv'
  BY <1>0, <1>1, <1>4, QuotaBegins DEF Quota!Upload, QuotaShape, Quota!Writers
<1>5. ASSUME NEW c \in Callers, NEW size \in Sizes, Quota!Delete(c, size) PROVE QuotaInv'
  <2>1. stored' \in Nat
    BY <1>0, <1>5 DEF Quota!Delete, QuotaShape
  <2> QED
    BY <1>0, <1>1, <1>5, <2>1, QuotaBegins DEF Quota!Delete, Quota!Writers
<1>6. ASSUME NEW c \in Callers, Quota!GetCached(c) PROVE QuotaInv'
  <2>0. /\ call[c] \in QuotaCalls /\ call[c].pc = "get" /\ cache \in Nat \cup {Quota!None}
        /\ UNCHANGED <<usage, stored, cache, told, untold>>
    BY <1>0, <1>6, CallKinds DEF Quota!GetCached, Quota!At, QuotaShape
  <2>1. PICK r \in QuotaCalls :
          /\ Quota!Set(c, r) /\ r.op = call[c].op /\ r.size = call[c].size
          /\ r.before = call[c].before /\ r.stage = call[c].stage
          /\ \/ r.pc = "use" /\ r.value = cache /\ cache # Quota!None
             \/ r.pc = "select"
    <3>1. CASE cache # Quota!None /\ Quota!Set(c, [call[c] EXCEPT !.pc = "use", !.value = cache])
      <4> DEFINE o == [call[c] EXCEPT !.pc = "use", !.value = cache]
      <4>1. /\ o \in QuotaCalls /\ o.op = call[c].op /\ o.size = call[c].size
            /\ o.before = call[c].before /\ o.stage = call[c].stage
            /\ o.pc = "use" /\ o.value = cache
        BY <2>0 DEF QuotaCalls, QuotaRecords, Reading
      <4>2. Quota!Set(c, o)
        BY <3>1
      <4> HIDE DEF o
      <4> QED
        BY <3>1, <4>1, <4>2
    <3>2. CASE Quota!Goto(c, "select")
      BY <2>0, <3>2 DEF QuotaCalls, QuotaRecords, Reading, Quota!Goto
    <3> QED
      BY <1>6, <3>1, <3>2 DEF Quota!GetCached
  <2>2. Turns(c, r) /\ (Writer(r) <=> Writer(call[c]))
    BY <1>0, <2>0, <2>1, CallTurns, NextCall
  <2>3. CASE ~Writer(call[c])
    BY <1>0, <2>0, <2>2, <2>3, ReaderMoves DEF QuotaShape
  <2>4. CASE Writer(call[c])
    <3>1. ASSUME ~untold PROVE Owes(r, told, usage)
      <4>1. Owes(call[c], told, usage) /\ cache \in {Quota!None, usage}
        BY <2>0, <2>4, <3>1, WriterKnows
      <4> QED
        BY <2>0, <2>1, <4>1 DEF Owes, UploadOwes, DeleteOwes, Reading
    <3> QED
      BY <1>0, <2>0, <2>2, <2>4, <3>1, WriterKnows, WriterMoves DEF QuotaShape
  <2> QED
    BY <2>3, <2>4
<1>7. ASSUME NEW c \in Callers, Quota!SelectUsage(c) PROVE QuotaInv'
  <2>0. /\ call[c] \in QuotaCalls /\ call[c].pc = "select" /\ usage \in Nat
        /\ UNCHANGED <<usage, stored, cache, told, untold>>
    BY <1>0, <1>7, CallKinds DEF Quota!SelectUsage, Quota!At, QuotaShape
  <2>1. PICK r \in QuotaCalls :
          /\ Quota!Set(c, r) /\ r.op = call[c].op /\ r.size = call[c].size
          /\ r.before = call[c].before /\ r.stage = call[c].stage
          /\ r.pc = "fill" /\ r.value = usage
    <3> DEFINE o == [call[c] EXCEPT !.pc = "fill", !.value = usage]
    <3>1. /\ o \in QuotaCalls /\ o.op = call[c].op /\ o.size = call[c].size
          /\ o.before = call[c].before /\ o.stage = call[c].stage
          /\ o.pc = "fill" /\ o.value = usage
      BY <2>0 DEF QuotaCalls, QuotaRecords, Reading
    <3>2. Quota!Set(c, o)
      BY <1>7 DEF Quota!SelectUsage
    <3> HIDE DEF o
    <3> QED
      BY <3>1, <3>2
  <2>2. Turns(c, r) /\ (Writer(r) <=> Writer(call[c]))
    BY <1>0, <2>0, <2>1, CallTurns, NextCall
  <2>3. CASE ~Writer(call[c])
    BY <1>0, <2>0, <2>2, <2>3, ReaderMoves DEF QuotaShape
  <2>4. CASE Writer(call[c])
    <3>1. ASSUME ~untold PROVE Owes(r, told, usage)
      <4>1. Owes(call[c], told, usage)
        BY <2>4, <3>1, WriterKnows
      <4> QED
        BY <2>0, <2>1, <4>1 DEF Owes, UploadOwes, DeleteOwes, Reading
    <3> QED
      BY <1>0, <2>0, <2>2, <2>4, <3>1, WriterKnows, WriterMoves DEF QuotaShape
  <2> QED
    BY <2>3, <2>4
\* A writer that gives up counts as untold.
<1>g. ASSUME NEW c \in Callers, Quota!Busy(c), NEW r \in {Quota!NoCall} \cup QuotaCalls,
             Quota!Set(c, r), usage' \in Nat, stored' \in Nat, cache' \in Nat \cup {Quota!None},
             untold' \in BOOLEAN, Writer(call[c]) => untold',
             ~Writer(call[c]) =>
               ~Writer(r) /\ cache' = cache /\ UNCHANGED <<usage, stored, told>>
               /\ (untold => untold')
      PROVE  QuotaInv'
  <2>1. Turns(c, r)
    BY <1>0, <1>g, CallTurns
  <2>2. CASE Writer(call[c])
    BY <1>g, <2>1, <2>2, WriterMoves
  <2>3. CASE ~Writer(call[c])
    BY <1>g, <2>1, <2>3, ReaderMoves
  <2> QED
    BY <2>2, <2>3
<1>n. ~Writer(Quota!NoCall) /\ Quota!NoCall \notin QuotaCalls
  BY DEF Writer, QuotaCalls, QuotaRecords, Quota!NoCall
<1>8. ASSUME NEW c \in Callers, Quota!SelectFails(c) PROVE QuotaInv'
  <2>0. /\ Quota!Busy(c) /\ call[c] \in QuotaCalls
        /\ Quota!Writes(c) <=> Writer(call[c])
        /\ call[c].op = "delete" => Writer(call[c])
        /\ UNCHANGED <<usage, stored, cache, told>>
        /\ untold' = (untold \/ Quota!Writes(c))
    BY <1>8, CallKinds DEF Quota!SelectFails, Quota!At, Quota!Writers
  <2>1. untold' \in BOOLEAN /\ (Writer(call[c]) => untold') /\ (untold => untold')
    BY <1>0, <2>0 DEF QuotaShape
  <2>2. CASE call[c].op = "delete" /\ call[c].stage = "before"
    <3>1. Quota!Set(c, [call[c] EXCEPT !.pc = "release"])
      BY <1>8, <2>2 DEF Quota!SelectFails, Quota!Goto
    <3>2. [call[c] EXCEPT !.pc = "release"] \in QuotaCalls
      BY <2>0, <2>2 DEF QuotaCalls, QuotaRecords
    <3> QED
      BY <1>0, <1>g, <2>0, <2>1, <2>2, <3>1, <3>2 DEF QuotaShape
  <2>3. CASE ~(call[c].op = "delete" /\ call[c].stage = "before")
    <3>1. Quota!Set(c, Quota!NoCall)
      BY <1>8, <2>3 DEF Quota!SelectFails, Quota!Return
    <3> QED
      BY <1>0, <1>g, <1>n, <2>0, <2>1, <3>1 DEF QuotaShape
  <2> QED
    BY <2>2, <2>3
<1>9. ASSUME NEW c \in Callers, Quota!CacheUsage(c) PROVE QuotaInv'
  <2>0. /\ call[c] \in QuotaCalls /\ call[c].pc = "fill"
        /\ UNCHANGED <<usage, stored, told>>
        /\ \/ cache' = call[c].value /\ untold' = (untold \/ call[c].value # usage)
           \/ UNCHANGED <<cache, untold>>
    BY <1>9, CallKinds DEF Quota!CacheUsage, Quota!At
  <2>t. call[c].value \in Nat \cup {Quota!None}
    BY <2>0 DEF QuotaCalls, QuotaRecords
  <2>1. /\ untold' \in BOOLEAN /\ cache' \in Nat \cup {Quota!None}
        /\ ~untold' => ~untold /\ cache' \in {cache, usage}
    <3>0. usage \in Nat /\ cache \in Nat \cup {Quota!None} /\ untold \in BOOLEAN
      BY <1>0 DEF QuotaShape
    <3>1. CASE cache' = call[c].value /\ untold' = (untold \/ call[c].value # usage)
      BY <2>t, <3>0, <3>1
    <3>2. CASE UNCHANGED <<cache, untold>>
      BY <3>0, <3>2
    <3> QED
      BY <2>0, <3>1, <3>2
  <2>2. PICK r \in QuotaCalls :
          /\ Quota!Set(c, r) /\ r.op = call[c].op /\ r.size = call[c].size
          /\ r.before = call[c].before /\ r.stage = call[c].stage
          /\ r.pc = "use" /\ r.value = call[c].value
    BY <1>9, <2>0 DEF QuotaCalls, QuotaRecords, Reading, Quota!CacheUsage, Quota!Goto
  <2>3. Turns(c, r) /\ (Writer(r) <=> Writer(call[c]))
    BY <1>0, <2>0, <2>2, CallTurns, NextCall
  <2>4. CASE ~Writer(call[c])
    BY <1>0, <2>0, <2>1, <2>3, <2>4, ReaderMoves DEF QuotaShape
  <2>5. CASE Writer(call[c])
    <3>1. ASSUME ~untold'
          PROVE  Owes(r, told, usage) /\ cache' \in {Quota!None, usage}
      <4>1. Owes(call[c], told, usage) /\ cache \in {Quota!None, usage}
        BY <2>0, <2>1, <2>5, <3>1, WriterKnows
      <4> QED
        BY <2>0, <2>1, <2>2, <3>1, <4>1 DEF Owes, UploadOwes, DeleteOwes, Reading
    <3> QED
      BY <1>0, <2>0, <2>1, <2>3, <2>5, <3>1, WriterKnows, WriterMoves DEF QuotaShape
  <2> QED
    BY <2>4, <2>5
<1>10. ASSUME Quota!CacheExpires PROVE QuotaInv'
  <2>1. UNCHANGED <<usage, stored, call, told, untold>> /\ cache' = Quota!None
    BY <1>10 DEF Quota!CacheExpires
  <2> QED
    BY <2>1 DEF QuotaInv, QuotaShape, OneWriter, CacheFresh, ToldSoFar
\* A writer at one of its own statements.
<1>w. ASSUME NEW c \in Callers, Quota!Busy(c), call[c].pc \notin Reading
      PROVE  /\ call[c] \in QuotaCalls /\ Writer(call[c]) /\ call[c].op \in Quota!Writers
             /\ call[c].size \in Nat
             /\ ~untold => /\ \A d \in Callers \ {c} : ~Writer(call[d])
                           /\ Owes(call[c], told, usage)
                           /\ call[c].pc # "del" => cache \in {Quota!None, usage}
  <2>1. call[c] \in QuotaCalls /\ call[c].op # "read" /\ Writer(call[c])
    BY <1>w, CallKinds DEF QuotaCalls
  <2> QED
    BY <2>1, CallKinds, WriterKnows, <1>w DEF QuotaCalls, QuotaRecords
<1>11. ASSUME NEW c \in Callers, Quota!TryAddUsage(c) PROVE QuotaInv'
  <2>0. /\ Quota!Busy(c) /\ call[c].pc = "reserve" /\ call[c].pc \notin Reading
        /\ UNCHANGED <<stored, cache, told, untold>>
    BY <1>11 DEF Quota!TryAddUsage, Quota!At, Reading
  <2>1. /\ call[c] \in QuotaCalls /\ Writer(call[c]) /\ call[c].size \in Nat
        /\ call[c].op \in Quota!Writers /\ usage \in Nat
    BY <1>0, <1>w, <2>0 DEF QuotaShape
  <2>2. ASSUME ~untold
        PROVE  /\ call[c].op = "upload" /\ call[c].stage = "after" /\ Agrees(told, usage)
               /\ cache \in {Quota!None, usage}
    BY <1>w, <2>0, <2>2 DEF Owes, UploadOwes, DeleteOwes, Reading, Quota!Writers
  <2>3. CASE usage + call[c].size <= StorageLimit
    <3> DEFINE o == [call[c] EXCEPT !.pc = "del"]
    <3>1. usage' = usage + call[c].size /\ Quota!Set(c, o)
      BY <1>11, <2>3 DEF Quota!TryAddUsage, Quota!Goto
    <3>2. /\ o \in QuotaCalls /\ o.pc = "del" /\ o.op = call[c].op /\ o.stage = call[c].stage
          /\ o.size = call[c].size
      BY <2>1 DEF QuotaCalls, QuotaRecords, Quota!Writers
    <3> HIDE DEF o
    <3>w. Writer(o)
      BY <2>1, <3>2, NextCall
    <3>3. usage' \in Nat /\ Quota!Minus(usage', call[c].size) = usage
      BY <2>1, <3>1 DEF Quota!Minus
    <3>4. ASSUME ~untold PROVE Owes(o, told, usage')
      <4>1. UploadOwes(o, told, usage')
        BY <2>2, <3>2, <3>3, <3>4 DEF UploadOwes
      <4> QED
        BY <2>2, <3>2, <3>4, <4>1 DEF Owes
    <3>5. Turns(c, o)
      BY <1>0, <3>1, <3>2, CallTurns
    <3> QED
      BY <1>0, <1>w, <2>0, <3>2, <3>3, <3>4, <3>5, <3>w, WriterMoves DEF QuotaShape
  <2>4. CASE ~(usage + call[c].size <= StorageLimit)
    <3>1. UNCHANGED usage /\ Quota!Set(c, Quota!NoCall)
      BY <1>11, <2>4 DEF Quota!TryAddUsage, Quota!Return
    <3>2. Turns(c, Quota!NoCall)
      BY <1>0, <3>1, CallTurns
    <3> QED
      BY <1>0, <1>n, <1>w, <2>0, <2>1, <2>2, <3>1, <3>2, WriterMoves DEF QuotaShape
  <2> QED
    BY <2>3, <2>4
<1>12. ASSUME NEW c \in Callers, Quota!Store(c) PROVE QuotaInv'
  <2>0. /\ Quota!Busy(c) /\ call[c].pc = "row" /\ call[c].pc \notin Reading
        /\ UNCHANGED <<usage, cache, told, untold>>
    BY <1>12 DEF Quota!Store, Quota!At, Reading
  <2>1. /\ call[c] \in QuotaCalls /\ Writer(call[c]) /\ call[c].size \in Nat
        /\ call[c].op \in Quota!Writers /\ usage \in Nat /\ stored \in Nat
    BY <1>0, <1>w, <2>0 DEF QuotaShape
  <2>2. ASSUME ~untold
        PROVE  /\ call[c].op = "upload" /\ call[c].stage = "after"
               /\ Agrees(told, Quota!Minus(usage, call[c].size))
               /\ cache \in {Quota!None, usage}
    BY <1>w, <2>0, <2>2 DEF Owes, UploadOwes, DeleteOwes, Reading, Quota!Writers
  <2>3. stored' \in Nat
    BY <1>12, <2>1 DEF Quota!Store, Quota!Usages
  <2>4. PICK o \in QuotaCalls :
          /\ Quota!Set(c, o) /\ o.op = call[c].op /\ o.size = call[c].size
          /\ \/ o.pc = "release" /\ o.stage \in {"undo", "prune"}
             \/ o.pc = "get" /\ o.stage = "end"
    <3> DEFINE undo == [call[c] EXCEPT !.pc = "release", !.stage = "undo"]
               kept(stage) == [call[c] EXCEPT !.stage = stage,
                                              !.pc = IF stage = "prune" THEN "release" ELSE "get"]
    <3>1. /\ undo \in QuotaCalls /\ undo.op = call[c].op /\ undo.size = call[c].size
          /\ undo.pc = "release" /\ undo.stage = "undo"
      BY <2>1 DEF QuotaCalls, QuotaRecords, Quota!Writers
    <3>2. /\ kept("end") \in QuotaCalls /\ kept("end").op = call[c].op
          /\ kept("end").size = call[c].size
          /\ kept("end").pc = "get" /\ kept("end").stage = "end"
      BY <2>1 DEF QuotaCalls, QuotaRecords, Quota!Writers, Reading
    <3>3. /\ kept("prune") \in QuotaCalls /\ kept("prune").op = call[c].op
          /\ kept("prune").size = call[c].size
          /\ kept("prune").pc = "release" /\ kept("prune").stage = "prune"
      BY <2>1 DEF QuotaCalls, QuotaRecords, Quota!Writers
    <3>4. Quota!Set(c, undo) \/ Quota!Set(c, kept("end")) \/ Quota!Set(c, kept("prune"))
      BY <1>12 DEF Quota!Store
    <3> HIDE DEF undo, kept
    <3> QED
      BY <3>1, <3>2, <3>3, <3>4
  <2>5. Turns(c, o) /\ Writer(o)
    BY <1>0, <2>1, <2>4, CallTurns, NextCall
  <2>6. ASSUME ~untold PROVE Owes(o, told, usage)
    <3>1. Quota!Minus(usage, o.size) \in Nat /\ Quota!Minus(usage, o.size) <= usage
      BY <2>1, <2>4, MinusBytes
    <3>2. UploadOwes(o, told, usage)
      BY <2>1, <2>2, <2>4, <2>6, <3>1, MoreIsNotLess DEF UploadOwes, Agrees, Reading
    <3> QED
      BY <2>2, <2>4, <2>6, <3>2 DEF Owes
  <2> QED
    BY <1>0, <1>w, <2>0, <2>1, <2>2, <2>3, <2>5, <2>6, WriterMoves DEF QuotaShape
<1>13. ASSUME NEW c \in Callers, Quota!RemoveUsage(c) PROVE QuotaInv'
  <2> DEFINE o == [call[c] EXCEPT !.pc = "del"]
  <2>0. /\ Quota!Busy(c) /\ call[c].pc = "release" /\ call[c].pc \notin Reading
        /\ call[c].stage # "prune" /\ call[c].op # "recalculate"
        /\ usage' = Quota!Minus(usage, call[c].size)
        /\ Quota!Set(c, o) /\ UNCHANGED <<stored, cache, told, untold>>
    BY <1>13 DEF Quota!RemoveUsage, Quota!At, Quota!Goto, Reading
  <2>1. /\ call[c] \in QuotaCalls /\ Writer(call[c]) /\ call[c].size \in Nat
        /\ call[c].op \in Quota!Writers /\ usage \in Nat
    BY <1>0, <1>w, <2>0 DEF QuotaShape
  <2>2. /\ o \in QuotaCalls /\ o.pc = "del" /\ o.op = call[c].op /\ o.stage = call[c].stage
        /\ o.size = call[c].size /\ o.before = call[c].before
    BY <2>1 DEF QuotaCalls, QuotaRecords, Quota!Writers
  <2> HIDE DEF o
  <2>w. Writer(o)
    BY <2>1, <2>2, NextCall
  <2>3. usage' \in Nat /\ usage' <= usage
    BY <2>0, <2>1, MinusBytes
  <2>4. ASSUME ~untold PROVE Owes(o, told, usage')
    <3>1. Owes(call[c], told, usage)
      BY <1>w, <2>0, <2>4
    <3>2. CASE call[c].op = "upload"
      <4>1. UploadOwes(o, told, usage')
        BY <2>0, <2>2, <3>1, <3>2 DEF Owes, UploadOwes, Reading
      <4> QED
        BY <2>2, <3>2, <4>1 DEF Owes
    <3>3. CASE call[c].op = "delete"
      <4>1. DeleteOwes(o, told, usage')
        BY <2>0, <2>1, <2>2, <2>3, <3>1, <3>3 DEF Owes, DeleteOwes, Reading
      <4> QED
        BY <2>2, <3>3, <4>1 DEF Owes
    <3> QED
      BY <2>0, <2>1, <3>2, <3>3 DEF Quota!Writers
  <2>5. Turns(c, o)
    BY <1>0, <2>0, <2>2, CallTurns
  <2> QED
    BY <1>0, <1>w, <2>0, <2>2, <2>3, <2>4, <2>5, <2>w, WriterMoves DEF QuotaShape
<1>14. ASSUME NEW c \in Callers, NEW size \in Sizes, Quota!PruneUsage(c, size) PROVE QuotaInv'
  <2> DEFINE o == [call[c] EXCEPT !.pc = "del"]
  <2>0. /\ Quota!Busy(c) /\ call[c].pc = "release" /\ call[c].pc \notin Reading
        /\ call[c].stage = "prune" /\ size <= stored /\ stored' = stored - size
        /\ usage' = Quota!Minus(usage, size)
        /\ untold' = (untold \/ (told = "exhausted" /\ ~Quota!Exhausted(usage')))
        /\ Quota!Set(c, o) /\ UNCHANGED <<cache, told>>
    BY <1>14 DEF Quota!PruneUsage, Quota!At, Quota!Goto, Reading
  <2>1. /\ call[c] \in QuotaCalls /\ Writer(call[c]) /\ call[c].size \in Nat
        /\ call[c].op \in Quota!Writers /\ usage \in Nat /\ size \in Nat
        /\ stored \in Nat /\ untold \in BOOLEAN
    BY <1>0, <1>w, <2>0 DEF QuotaShape
  <2>2. /\ o \in QuotaCalls /\ o.pc = "del" /\ o.op = call[c].op /\ o.stage = call[c].stage
        /\ o.size = call[c].size
    BY <2>1 DEF QuotaCalls, QuotaRecords, Quota!Writers
  <2> HIDE DEF o
  <2>3. usage' \in Nat /\ usage' <= usage
    BY <2>0, <2>1, MinusBytes
  <2>t. stored' \in Nat
    BY <2>0, <2>1
  <2>u. untold' \in BOOLEAN /\ (untold => untold')
    BY <2>0, <2>1
  <2>4. ASSUME ~untold' PROVE Owes(o, told, usage')
    <3>1. call[c].op = "upload" /\ Agrees(told, Quota!Minus(usage, call[c].size))
      BY <1>w, <2>0, <2>1, <2>4, <2>u DEF Owes, UploadOwes, DeleteOwes, Reading, Quota!Writers
    <3>2. told = "exhausted" => Quota!Exhausted(usage')
      BY <2>0, <2>4
    <3>3. /\ Quota!Minus(usage', o.size) \in Nat /\ Quota!Minus(usage, o.size) \in Nat
          /\ Quota!Minus(usage', o.size) <= Quota!Minus(usage, o.size)
      BY <2>1, <2>2, <2>3, MinusBytes
    <3>4. told # "exhausted" => ~Quota!Exhausted(Quota!Minus(usage', o.size))
      BY <2>2, <3>1, <3>3, MoreIsNotLess DEF Agrees
    <3>5. UploadOwes(o, told, usage')
      BY <2>0, <2>2, <3>2, <3>4 DEF UploadOwes
    <3> QED
      BY <2>2, <3>1, <3>5 DEF Owes
  <2>5. Turns(c, o) /\ Writer(o)
    BY <1>0, <2>0, <2>1, <2>2, CallTurns, NextCall
  <2> QED
    BY <1>0, <1>w, <2>0, <2>2, <2>3, <2>t, <2>u, <2>4, <2>5, WriterMoves DEF QuotaShape
<1>15. ASSUME NEW c \in Callers, Quota!WriteRecalculated(c) PROVE QuotaInv'
  <2> DEFINE o == [call[c] EXCEPT !.pc = "del"]
  <2>0. /\ Quota!Busy(c) /\ call[c].pc = "release" /\ call[c].pc \notin Reading
        /\ call[c].op = "recalculate" /\ usage' = stored
        /\ untold' = (untold \/ (told = "exhausted") # Quota!Exhausted(usage'))
        /\ Quota!Set(c, o) /\ UNCHANGED <<stored, cache, told>>
    BY <1>15 DEF Quota!WriteRecalculated, Quota!At, Quota!Goto, Reading
  <2>1. /\ call[c] \in QuotaCalls /\ Writer(call[c]) /\ stored \in Nat /\ untold \in BOOLEAN
    BY <1>0, <1>w, <2>0 DEF QuotaShape
  <2>2. /\ o \in QuotaCalls /\ o.pc = "del" /\ o.op = call[c].op /\ o.stage = call[c].stage
    BY <2>0, <2>1 DEF QuotaCalls, QuotaRecords
  <2> HIDE DEF o
  <2>u. untold' \in BOOLEAN /\ (untold => untold')
    BY <2>0, <2>1
  <2>4. ASSUME ~untold' PROVE Owes(o, told, usage')
    <3>1. call[c].stage = "before"
      BY <1>w, <2>0, <2>1, <2>4, <2>u DEF Owes
    <3>2. Agrees(told, usage')
      BY <2>0, <2>4 DEF Agrees, Quota!Exhausted
    <3> QED
      BY <2>0, <2>2, <3>1, <3>2 DEF Owes
  <2>5. Turns(c, o) /\ Writer(o)
    BY <1>0, <2>0, <2>1, <2>2, CallTurns, NextCall
  <2> QED
    BY <1>0, <1>w, <2>0, <2>1, <2>2, <2>u, <2>4, <2>5, WriterMoves DEF QuotaShape
<1>16. ASSUME NEW c \in Callers, Quota!WriteFails(c) PROVE QuotaInv'
  <2>0. /\ Quota!Busy(c) /\ call[c].pc \in {"reserve", "release"} /\ call[c].pc \notin Reading
        /\ usage' \in Quota!Written(c) \cup {usage} /\ untold' = TRUE
        /\ Quota!Set(c, Quota!NoCall) /\ UNCHANGED <<stored, cache, told>>
    BY <1>16 DEF Quota!WriteFails, Quota!At, Quota!Return, Reading
  <2>1. call[c].size \in Nat /\ Writer(call[c]) /\ usage \in Nat /\ stored \in Nat
    BY <1>0, <1>w, <2>0 DEF QuotaShape
  <2>2. usage' \in Nat
    <3>1. \/ usage' = usage \/ usage' \in {usage + call[c].size}
          \/ usage' = stored \/ (\E size \in Sizes : usage' = Quota!Minus(usage, size))
          \/ usage' = Quota!Minus(usage, call[c].size)
      BY <2>0 DEF Quota!Written, Quota!At
    <3> QED
      BY <1>0, <2>1, <3>1 DEF Quota!Minus
  <2> QED
    BY <1>0, <1>g, <2>0, <2>1, <2>2 DEF QuotaShape
\* What comes after the Del of an entry.
<1>d. ASSUME NEW c \in Callers, Quota!At(c, "del")
      PROVE  /\ Quota!Busy(c) /\ Writer(call[c]) /\ call[c].pc \notin Reading
             /\ Quota!AfterDel(call[c]) \in {Quota!NoCall} \cup QuotaCalls
             /\ ~untold =>
                  /\ Writer(Quota!AfterDel(call[c])) =>
                       Owes(Quota!AfterDel(call[c]), told, usage)
                  /\ ~Writer(Quota!AfterDel(call[c])) => Agrees(told, usage)
  <2>0. Quota!Busy(c) /\ call[c].pc = "del" /\ call[c].pc \notin Reading
    BY <1>d DEF Quota!At, Reading
  <2>1. /\ call[c] \in QuotaCalls /\ Writer(call[c]) /\ call[c].op \in Quota!Writers
    BY <1>w, <2>0
  <2> DEFINE rowed == [call[c] EXCEPT !.pc = "row"]
             end == [call[c] EXCEPT !.pc = "get", !.stage = "end"]
  <2>2. /\ rowed \in QuotaCalls /\ rowed.pc = "row" /\ rowed.stage = call[c].stage
        /\ rowed.op = call[c].op /\ rowed.size = call[c].size
    BY <2>1 DEF QuotaCalls, QuotaRecords, Quota!Writers
  <2>3. /\ end \in QuotaCalls /\ end.pc = "get" /\ end.stage = "end" /\ end.op = call[c].op
        /\ end.size = call[c].size /\ end.before = call[c].before
    BY <2>1 DEF QuotaCalls, QuotaRecords, Quota!Writers, Reading
  <2>4. \/ /\ call[c].op = "upload" /\ call[c].stage = "after" /\ Quota!AfterDel(call[c]) = rowed
        \/ /\ call[c].op = "upload" /\ call[c].stage = "prune" /\ Quota!AfterDel(call[c]) = end
        \/ /\ call[c].op = "delete" /\ call[c].before # Quota!None
           /\ Quota!AfterDel(call[c]) = end
        \/ /\ ~(call[c].op = "upload" /\ call[c].stage \in {"after", "prune"})
           /\ ~(call[c].op = "delete" /\ call[c].before # Quota!None)
           /\ Quota!AfterDel(call[c]) = Quota!NoCall
    BY DEF Quota!AfterDel
  <2> HIDE DEF rowed, end
  <2>5. ASSUME ~untold
        PROVE  /\ Writer(Quota!AfterDel(call[c])) => Owes(Quota!AfterDel(call[c]), told, usage)
               /\ ~Writer(Quota!AfterDel(call[c])) => Agrees(told, usage)
    <3>1. Owes(call[c], told, usage)
      BY <1>w, <2>0, <2>5
    <3>2. CASE call[c].op = "upload" /\ call[c].stage = "after" /\ Quota!AfterDel(call[c]) = rowed
      <4>1. UploadOwes(rowed, told, usage)
        BY <2>0, <2>2, <3>1, <3>2 DEF Owes, UploadOwes, Reading
      <4> QED
        BY <2>1, <2>2, <3>2, <4>1, NextCall DEF Owes
    <3>3. CASE call[c].op = "upload" /\ call[c].stage = "prune" /\ Quota!AfterDel(call[c]) = end
      <4>1. UploadOwes(end, told, usage)
        BY <2>0, <2>3, <3>1, <3>3 DEF Owes, UploadOwes, Reading
      <4> QED
        BY <2>1, <2>3, <3>3, <4>1, NextCall DEF Owes
    <3>4. CASE call[c].op = "delete" /\ call[c].before # Quota!None
               /\ Quota!AfterDel(call[c]) = end
      <4>1. DeleteOwes(end, told, usage)
        BY <2>0, <2>3, <3>1, <3>4 DEF Owes, DeleteOwes, Reading
      <4> QED
        BY <2>1, <2>3, <3>4, <4>1, NextCall DEF Owes
    <3>5. CASE /\ ~(call[c].op = "upload" /\ call[c].stage \in {"after", "prune"})
               /\ ~(call[c].op = "delete" /\ call[c].before # Quota!None)
               /\ Quota!AfterDel(call[c]) = Quota!NoCall
      <4>1. CASE call[c].op = "upload"
        BY <1>n, <2>0, <3>1, <3>5, <4>1 DEF Owes, UploadOwes, Reading
      <4>2. CASE call[c].op = "delete"
        BY <2>0, <3>1, <3>5, <4>2 DEF Owes, DeleteOwes, Reading, Quota!None
      <4>3. CASE call[c].op = "recalculate"
        BY <1>n, <3>1, <3>5, <4>3 DEF Owes
      <4> QED
        BY <2>1, <4>1, <4>2, <4>3 DEF Quota!Writers
    <3> QED
      BY <2>4, <3>2, <3>3, <3>4, <3>5
  <2> QED
    BY <2>0, <2>1, <2>2, <2>3, <2>4, <2>5
<1>17. ASSUME NEW c \in Callers, Quota!InvalidateUsageCache(c) PROVE QuotaInv'
  <2>0. /\ Quota!At(c, "del") /\ cache' = Quota!None /\ Quota!Set(c, Quota!AfterDel(call[c]))
        /\ UNCHANGED <<usage, stored, told, untold>>
    BY <1>17 DEF Quota!InvalidateUsageCache
  <2>1. Turns(c, Quota!AfterDel(call[c]))
    BY <1>0, <1>d, <2>0, CallTurns
  <2> QED
    BY <1>0, <1>d, <1>w, <2>0, <2>1, WriterMoves DEF QuotaShape
<1>18. ASSUME NEW c \in Callers, Quota!InvalidateFails(c) PROVE QuotaInv'
  <2>0. /\ Quota!At(c, "del") /\ Quota!Set(c, Quota!AfterDel(call[c])) /\ untold' = TRUE
        /\ UNCHANGED <<usage, stored, cache, told>>
    BY <1>18 DEF Quota!InvalidateFails
  <2> QED
    BY <1>0, <1>d, <1>g, <2>0 DEF QuotaShape
<1>19. ASSUME NEW c \in Callers, Quota!UseUsage(c) PROVE QuotaInv'
  <2>0. /\ Quota!Busy(c) /\ call[c].pc = "use" /\ UNCHANGED <<usage, stored, cache, untold>>
    BY <1>19 DEF Quota!UseUsage, Quota!At
  <2>1. /\ call[c] \in QuotaCalls /\ call[c].op \in Quota!Writers \cup {"read"}
        /\ ~Writer(call[c]) <=> call[c].op = "read"
        /\ call[c].op = "read" => call[c].stage = "end"
        /\ call[c].size \in Nat /\ call[c].value \in Nat \cup {Quota!None} /\ usage \in Nat
    BY <1>0, <2>0, CallKinds DEF QuotaCalls, QuotaRecords, QuotaShape
  <2>2. ASSUME Writer(call[c]), ~untold
        PROVE  Owes(call[c], told, usage) /\ call[c].value = usage
               /\ cache \in {Quota!None, usage} /\ \A d \in Callers \ {c} : ~Writer(call[d])
    BY <2>0, <2>2, WriterKnows DEF Owes
  <2>3. CASE call[c].stage = "before"
    <3> DEFINE o == [call[c] EXCEPT !.pc = "release", !.before = call[c].value,
                                    !.value = Quota!None]
    <3>1. Quota!Set(c, o) /\ UNCHANGED told
      BY <1>19, <2>3 DEF Quota!UseUsage
    <3>2. /\ o \in QuotaCalls /\ o.pc = "release" /\ o.op = call[c].op
          /\ o.stage = "before" /\ o.before = call[c].value
      BY <2>1, <2>3 DEF QuotaCalls, QuotaRecords
    <3> HIDE DEF o
    <3>3. Writer(call[c]) /\ Writer(o) /\ Turns(c, o)
      BY <1>0, <2>1, <2>3, <3>1, <3>2, CallTurns, NextCall
    <3>4. ASSUME ~untold PROVE Owes(o, told, usage)
      BY <2>0, <2>1, <2>2, <2>3, <3>2, <3>3, <3>4
         DEF Owes, UploadOwes, DeleteOwes, Reading
    <3> QED
      BY <1>0, <2>0, <2>2, <3>1, <3>3, <3>4, WriterMoves DEF QuotaShape
  <2>4. CASE call[c].stage # "before"
    <3>1. /\ Quota!Set(c, Quota!NoCall)
          /\ call[c].op = "upload" =>
               Quota!Tell(Quota!quotaIncreaseEvent(
                            Quota!Minus(call[c].value, call[c].size), call[c].value))
          /\ call[c].op = "delete" =>
               Quota!Tell(IF Quota!quotaRestored(call[c].before, call[c].value)
                            THEN "restored" ELSE "none")
          /\ call[c].op \notin {"upload", "delete"} => UNCHANGED told
      BY <1>19, <2>4 DEF Quota!UseUsage, Quota!Return
    <3>2. Turns(c, Quota!NoCall)
      BY <1>0, <3>1, CallTurns
    <3>3. CASE ~Writer(call[c])
      BY <1>0, <1>n, <2>0, <2>1, <3>1, <3>2, <3>3, ReaderMoves DEF QuotaShape
    <3>4. CASE Writer(call[c])
      <4>1. ASSUME ~untold PROVE Agrees(told', usage)
        <5>0. Owes(call[c], told, usage) /\ call[c].value = usage
          BY <2>2, <3>4, <4>1
        <5>1. CASE call[c].op = "upload"
          <6>1. /\ told = "exhausted" => Quota!Exhausted(usage)
                /\ told # "exhausted" => ~Quota!Exhausted(Quota!Minus(usage, call[c].size))
            BY <2>0, <5>0, <5>1 DEF Owes, UploadOwes, Reading
          <6>2. Quota!Minus(usage, call[c].size) \in Nat
                /\ Quota!Minus(usage, call[c].size) <= usage
            BY <2>1, MinusBytes
          <6>3. Quota!Exhausted(Quota!Minus(usage, call[c].size)) => Quota!Exhausted(usage)
            BY <2>1, <6>2, MoreIsNotLess
          <6>4. Quota!Tell(Quota!quotaIncreaseEvent(
                             Quota!Minus(usage, call[c].size), usage))
            BY <3>1, <5>0, <5>1
          <6> QED
            BY <6>1, <6>3, <6>4 DEF Agrees, Quota!Tell, Quota!quotaIncreaseEvent
        <5>2. CASE call[c].op = "delete"
          <6>1. call[c].before \in Nat /\ usage <= call[c].before /\ Agrees(told, call[c].before)
            BY <2>0, <2>4, <5>0, <5>2 DEF Owes, DeleteOwes, Reading
          <6>2. Quota!Exhausted(usage) => Quota!Exhausted(call[c].before)
            BY <2>1, <6>1, MoreIsNotLess
          <6>3. Quota!Tell(IF Quota!quotaRestored(call[c].before, usage)
                             THEN "restored" ELSE "none")
            BY <3>1, <5>0, <5>2
          <6> QED
            BY <6>1, <6>2, <6>3 DEF Agrees, Quota!Tell, Quota!quotaRestored
        <5>3. CASE call[c].op = "recalculate"
          BY <2>4, <5>0, <5>3 DEF Owes
        <5> QED
          BY <2>1, <3>4, <5>1, <5>2, <5>3 DEF Quota!Writers
      <4> QED
        BY <1>0, <1>n, <2>0, <2>2, <3>2, <3>4, <4>1, WriterMoves DEF QuotaShape
    <3> QED
      BY <3>3, <3>4
  <2> QED
    BY <2>3, <2>4
<1>20. ASSUME NEW c \in Callers, Quota!Crash(c) PROVE QuotaInv'
  <2>0. /\ Quota!Busy(c) /\ Quota!Set(c, Quota!NoCall) /\ UNCHANGED <<usage, stored, cache, told>>
        /\ untold' = (untold \/ Quota!Writes(c)) /\ (Quota!Writes(c) <=> Writer(call[c]))
    BY <1>20, CallKinds DEF Quota!Crash, Quota!Return
  <2>1. untold' \in BOOLEAN /\ (Writer(call[c]) => untold') /\ (untold => untold')
    BY <1>0, <2>0 DEF QuotaShape
  <2> QED
    BY <1>0, <1>g, <1>n, <2>0, <2>1 DEF QuotaShape
<1>21. ASSUME Quota!RecalculateAllUsage PROVE QuotaInv'
  <2>1. QuotaShape'
    BY <1>0, <1>21 DEF Quota!RecalculateAllUsage, QuotaShape
  <2>2. ~untold' => ~untold /\ UNCHANGED <<usage, cache, call, told>>
    BY <1>21 DEF Quota!RecalculateAllUsage
  <2> QED
    BY <2>1, <2>2 DEF QuotaInv, OneWriter, CacheFresh, ToldSoFar
<1> QED
  BY <1>2, <1>3, <1>4, <1>5, <1>6, <1>7, <1>8, <1>9, <1>10, <1>11, <1>12, <1>13, <1>14, <1>15,
     <1>16, <1>17, <1>18, <1>19, <1>20, <1>21
     DEF Quota!QuotaNext

LEMMA QuotaAlways == Spec => []QuotaInv
<1>1. Init => QuotaInv
  <2> SUFFICES ASSUME Quota!QuotaInit PROVE QuotaInv
    BY DEF Init
  <2>1. QuotaShape /\ \A c \in Callers : ~Writer(call[c])
    BY DEF Quota!QuotaInit, QuotaShape, Writer
  <2>2. Agrees(told, usage)
    BY NoneIsExhausted DEF Quota!QuotaInit, Agrees
  <2> QED
    BY <2>1, <2>2 DEF Quota!QuotaInit, QuotaInv, OneWriter, CacheFresh, ToldSoFar
<1>2. QuotaInv /\ [Next]_vars => QuotaInv'
  <2> SUFFICES ASSUME QuotaInv, [Next]_vars PROVE QuotaInv'
    OBVIOUS
  <2>1. CASE UNCHANGED quotaVars
    BY <2>1 DEF quotaVars, QuotaInv, QuotaShape, OneWriter, CacheFresh, ToldSoFar
  <2> QED
    BY <2>1, PartStep, QuotaStep
<1> QED
  BY <1>1, <1>2, PTL DEF Spec

\* When no write is under way the last notification is right about the quota and the
\* cached usage about the counter, for any number of requests, any limit, threshold
\* and sizes, unless writes overlapped, a statement or a Del failed, a read cached a
\* value that had been overtaken, or pruning or a correction moved the usage
\* (notifyQuotaAfterIncrease, notifyQuotaAfterDecrease, QuotaRepo.GetUsage).
THEOREM NotificationsTrue == Spec => []UserIsTold
<1>1. QuotaInv => UserIsTold
  <2> SUFFICES ASSUME QuotaInv, ~untold, \A c \in Callers : ~Quota!Writes(c)
               PROVE  (told = "exhausted") = Quota!Exhausted(usage) /\ cache \in {Quota!None, usage}
    BY DEF UserIsTold, Quota!UserIsTold
  <2>1. \A c \in Callers : ~Writer(call[c])
    BY DEF Writer, Quota!Writes, Quota!Busy
  <2> QED
    BY <2>1 DEF QuotaInv, CacheFresh, ToldSoFar, Agrees, Quota!Exhausted
<1> QED
  BY <1>1, QuotaAlways, PTL
-----------------------------------------------------------------------------
(***************************************************************************)
(* Deployment                                                              *)
(***************************************************************************)
\* All the reasons a start would meet, not only the first.
Reasons ==
  (IF Deploy!cfg.file = "broken" THEN {"file"} ELSE {})
  \cup Deploy!Validate
  \cup (IF Deploy!DatabaseFails THEN {"database"} ELSE {})
  \cup (IF Deploy!StorageFails THEN {"s3"} ELSE {})
  \cup (IF Deploy!cfg.jwt = "undecodable" THEN {"jwt"} ELSE {})
  \cup (IF Deploy!MailFails THEN {"smtp"} ELSE {})
  \cup (IF Deploy!cfg.options = "malformed" THEN {"options"} ELSE {})
  \cup (IF Deploy!world.port = "taken" THEN {"port"} ELSE {})

\* The settings of which the doctor and the server tell more than two classes apart.
MailTyped ==
  Deploy!cfg.smtp \in {"on", "off"} /\ Deploy!cfg.smtpTLS \in {"valid", "padded", "invalid"}

\* A server that has failed would fail again for the same reasons.
FailedFor == server.state = "failed" => server.causes \subseteq Reasons

\* A clearance would be given again, and it warns of the maintenance mode.
Clearance ==
  verdict # Deploy!NoVerdict /\ "error" \notin verdict.severities =>
    /\ "error" \notin Deploy!Diagnose(Deploy!cfg, Deploy!world)
    /\ Deploy!world.maintenance = "on" => "maintenance" \in verdict.severities

DeployInv == MailTyped /\ FailedFor /\ Clearance

\* What the doctor has seen when it finds no error.
LEMMA CleanBill ==
  ASSUME NEW c, NEW w, "error" \notin Deploy!Diagnose(c, w)
  PROVE  /\ c.file # "broken" /\ c.jwt = "valid" /\ c.secret # "invalid"
         /\ c.database # "missing" /\ w.database # "down"
         /\ c.s3 = "complete" /\ w.bucket \in {"present", "large"}
         /\ c.failMode # "invalid" /\ c.fallback # "invalid"
         /\ c.metrics # "bad_path"
         /\ c.originCheck = "off" \/ c.origins # "invalid"
         /\ c.caps # "negative"
         /\ c.smtp = "on" => /\ c.smtpServer = "set" /\ c.smtpPort # "invalid"
                             /\ c.smtpFrom # "missing" /\ c.smtpTLS # "invalid"
         /\ w.maintenance = "on" => "maintenance" \in Deploy!Diagnose(c, w)
<1>1. /\ c.file # "broken"
      /\ Deploy!CheckJWT(c) # "error" /\ Deploy!CheckSecuritySecret(c) # "error"
      /\ Deploy!CheckPostgres(c, w) # "error" /\ Deploy!CheckS3(c, w) # "error"
      /\ Deploy!CheckSMTP(c) # "error"
      /\ "error" \notin Deploy!CheckRateLimit(c) /\ "error" \notin Deploy!CheckMetrics(c)
      /\ "error" \notin Deploy!CheckWebSocket(c)
      /\ \A x \in Deploy!CheckSettings(Deploy!CheckPostgres(c, w) = "ok", w) :
           x \in Deploy!Diagnose(c, w)
  BY DEF Deploy!Diagnose
<1>2. c.jwt = "valid" /\ c.secret # "invalid"
  BY <1>1 DEF Deploy!CheckJWT, Deploy!CheckSecuritySecret, Deploy!Flag
<1>3. /\ c.database # "missing" /\ w.database # "down" /\ Deploy!CheckPostgres(c, w) = "ok"
  BY <1>1 DEF Deploy!CheckPostgres, Deploy!Flag
<1>4. c.s3 = "complete" /\ w.bucket \in {"present", "large"}
  BY <1>1 DEF Deploy!CheckS3, Deploy!Flag
<1>5. c.failMode # "invalid" /\ c.fallback # "invalid"
  BY <1>1 DEF Deploy!CheckRateLimit
<1>6. c.metrics # "bad_path"
  BY <1>1 DEF Deploy!CheckMetrics, Deploy!Flag
<1>7. (c.originCheck = "off" \/ c.origins # "invalid") /\ c.caps # "negative"
  BY <1>1 DEF Deploy!CheckWebSocket, Deploy!Flag
<1>8. c.smtp = "on" => /\ c.smtpServer = "set" /\ c.smtpPort # "invalid"
                       /\ c.smtpFrom # "missing" /\ c.smtpTLS # "invalid"
  BY <1>1 DEF Deploy!CheckSMTP, Deploy!Flag
<1>9. w.maintenance = "on" => "maintenance" \in Deploy!Diagnose(c, w)
  BY <1>1, <1>3 DEF Deploy!CheckSettings
<1> QED
  BY <1>1, <1>2, <1>3, <1>4, <1>5, <1>6, <1>7, <1>8, <1>9

\* What is left to fail for after that.
LEMMA OnlyBlindSpots ==
  ASSUME MailTyped, "error" \notin Deploy!Diagnose(Deploy!cfg, Deploy!world)
  PROVE  Reasons \subseteq Deploy!BlindSpots
<1> DEFINE c == Deploy!cfg
           w == Deploy!world
<1>0. /\ c.file # "broken" /\ c.jwt = "valid" /\ c.secret # "invalid"
      /\ c.database # "missing" /\ w.database # "down"
      /\ c.s3 = "complete" /\ w.bucket \in {"present", "large"}
      /\ c.failMode # "invalid" /\ c.fallback # "invalid"
      /\ c.metrics # "bad_path"
      /\ c.originCheck = "off" \/ c.origins # "invalid"
      /\ c.caps # "negative"
      /\ c.smtp = "on" => /\ c.smtpServer = "set" /\ c.smtpPort # "invalid"
                          /\ c.smtpFrom # "missing" /\ c.smtpTLS # "invalid"
      /\ c.smtp \in {"on", "off"} /\ c.smtpTLS \in {"valid", "padded", "invalid"}
  BY CleanBill DEF MailTyped
<1>1. Deploy!ValidateKeys = {} /\ Deploy!ValidateDatabase \subseteq {"pool"}
  BY <1>0 DEF Deploy!ValidateKeys, Deploy!ValidateDatabase
<1>2. Deploy!ValidateProviders \subseteq {"oidc", "turnstile"}
  BY DEF Deploy!ValidateProviders
<1>3. Deploy!ValidateLimits \subseteq {"origins"}
      /\ ("origins" \in Deploy!ValidateLimits => c.originCheck = "off")
  BY <1>0 DEF Deploy!ValidateLimits
<1>4. /\ Deploy!ValidateMail \subseteq {"thresholds", "history", "opsLimit", "smtpTLS"}
      /\ "smtpTLS" \in Deploy!ValidateMail => c.smtp = "off" \/ c.smtpTLS = "padded"
  BY <1>0 DEF Deploy!ValidateMail
<1>5. ~Deploy!DatabaseFails /\ ~Deploy!StorageFails
      /\ (Deploy!MailFails => c.smtpFrom = "malformed")
  BY <1>0 DEF Deploy!DatabaseFails, Deploy!StorageFails, Deploy!MailFails
<1>6. ASSUME NEW x \in Deploy!Validate PROVE x \in Deploy!BlindSpots
  <2>1. x \in {"pool"} \cup {"oidc", "turnstile"} \cup {"thresholds", "history", "opsLimit"}
          \cup {"origins", "smtpTLS"}
    BY <1>1, <1>2, <1>3, <1>4, <1>6 DEF Deploy!Validate
  <2>2. CASE x = "origins"
    <3>1. c.originCheck = "off"
      BY <1>1, <1>2, <1>3, <1>4, <1>6, <2>2 DEF Deploy!Validate
    <3> QED
      BY <2>2, <3>1 DEF Deploy!BlindSpots
  <2>3. CASE x = "smtpTLS"
    <3>1. c.smtp = "off" \/ c.smtpTLS = "padded"
      BY <1>1, <1>2, <1>3, <1>4, <1>6, <2>3 DEF Deploy!Validate
    <3> QED
      BY <2>3, <3>1 DEF Deploy!BlindSpots
  <2> QED
    BY <2>1, <2>2, <2>3 DEF Deploy!BlindSpots
<1>7. ASSUME NEW x \in Reasons \ Deploy!Validate PROVE x \in Deploy!BlindSpots
  <2>1. x \in {"smtp", "options", "port"} /\ (x = "smtp" => c.smtpFrom = "malformed")
    BY <1>0, <1>5, <1>7 DEF Reasons
  <2> QED
    BY <2>1 DEF Deploy!BlindSpots
<1> QED
  BY <1>6, <1>7

\* A change of one entry is a change of one entry.
LEMMA OneChange ==
  ASSUME NEW f, NEW base, NEW k, NEW v, NEW j \in DOMAIN base
  PROVE  Deploy!Over(Deploy!With(f, k, v), base)[j]
           = IF j = k THEN v ELSE Deploy!Over(f, base)[j]
BY DEF Deploy!Over, Deploy!With

\* A bucket that is made changes nothing else.
LEMMA OnlyBucket ==
  LET w == Deploy!Over(Deploy!BucketMade, Deploy!Sound)
  IN  /\ w.database = Deploy!world.database /\ w.port = Deploy!world.port
      /\ w.maintenance = Deploy!world.maintenance
      /\ w.bucket = IF Deploy!world.bucket = "absent" THEN "present" ELSE Deploy!world.bucket
      /\ w.makeBucket = Deploy!world.makeBucket
      /\ Deploy!world.bucket # "absent" => w = Deploy!world
<1>1. \A j \in {"database", "port", "maintenance", "bucket", "makeBucket"} :
        j \in DOMAIN Deploy!Sound
  BY DEF Deploy!Sound
<1>2. CASE Deploy!world.bucket = "absent"
  <2>1. Deploy!BucketMade = Deploy!With(moved, "bucket", "present")
    BY <1>2 DEF Deploy!BucketMade
  <2>2. \A j \in {"database", "port", "maintenance", "bucket", "makeBucket"} :
          Deploy!Over(Deploy!BucketMade, Deploy!Sound)[j]
            = IF j = "bucket" THEN "present" ELSE Deploy!world[j]
    BY <1>1, <2>1, OneChange DEF Deploy!world
  <2> QED
    BY <1>2, <2>2
<1>3. CASE Deploy!world.bucket # "absent"
  BY <1>3 DEF Deploy!BucketMade, Deploy!world
<1> QED
  BY <1>2, <1>3

\* The reasons of a start that do not speak of the storage outlast the making of a
\* bucket, and those that do exclude it.
LEMMA ReasonsOutlast ==
  ASSUME UNCHANGED edited, moved' = Deploy!BucketMade, ~Deploy!StorageFails
  PROVE  Reasons \subseteq Reasons'
<1>0. /\ Deploy!cfg' = Deploy!cfg
      /\ Deploy!world' = Deploy!Over(Deploy!BucketMade, Deploy!Sound)
  BY DEF Deploy!cfg, Deploy!world, Deploy!Over
<1>1. Deploy!Validate' = Deploy!Validate /\ Deploy!MailFails' = Deploy!MailFails
  BY <1>0 DEF Deploy!Validate, Deploy!ValidateKeys, Deploy!ValidateDatabase,
              Deploy!ValidateProviders, Deploy!ValidateLimits, Deploy!ValidateMail,
              Deploy!MailFails
<1>2. (Deploy!DatabaseFails => Deploy!DatabaseFails')
      /\ (Deploy!world.port = "taken" => Deploy!world'.port = "taken")
  BY <1>0, OnlyBucket DEF Deploy!DatabaseFails
<1> QED
  BY <1>0, <1>1, <1>2 DEF Reasons

LEMMA SameDeployment ==
  ASSUME UNCHANGED <<edited, moved>>
  PROVE  /\ Deploy!cfg' = Deploy!cfg /\ Deploy!world' = Deploy!world /\ Reasons' = Reasons
         /\ MailTyped' <=> MailTyped
<1>1. Deploy!cfg' = Deploy!cfg /\ Deploy!world' = Deploy!world
  BY DEF Deploy!cfg, Deploy!world, Deploy!Over
<1>2. Reasons' = Reasons
  BY <1>1 DEF Reasons, Deploy!Validate, Deploy!ValidateKeys, Deploy!ValidateDatabase,
              Deploy!ValidateProviders, Deploy!ValidateLimits, Deploy!ValidateMail,
              Deploy!MailFails, Deploy!DatabaseFails, Deploy!StorageFails
<1> QED
  BY <1>1, <1>2 DEF MailTyped

LEMMA DeployStep ==
  ASSUME DeployInv, Deploy!DeployNext
  PROVE  DeployInv'
<1>1. ASSUME NEW k \in Deploy!Settings, NEW v \in Deploy!Choices[k], Deploy!EditConfig(k, v)
      PROVE  DeployInv'
  <2>1. /\ edited' = Deploy!With(edited, k, v) /\ verdict' = Deploy!NoVerdict
        /\ server' = Deploy!Down
    BY <1>1 DEF Deploy!EditConfig
  <2>2. \A j \in {"smtp", "smtpTLS"} :
          Deploy!cfg'[j] = IF j = k THEN v ELSE Deploy!cfg[j]
    <3>1. "smtp" \in DOMAIN Deploy!Working /\ "smtpTLS" \in DOMAIN Deploy!Working
      BY DEF Deploy!Working
    <3>2. Deploy!cfg' = Deploy!Over(Deploy!With(edited, k, v), Deploy!Working)
      BY <2>1 DEF Deploy!cfg, Deploy!Over
    <3> QED
      BY <3>1, <3>2, OneChange DEF Deploy!cfg
  <2>3. /\ k = "smtp" => v \in {"on", "off"}
        /\ k = "smtpTLS" => v \in {"valid", "padded", "invalid"}
    BY <1>1 DEF Deploy!Choices
  <2>4. MailTyped'
    BY <2>2, <2>3 DEF DeployInv, MailTyped
  <2>5. FailedFor' /\ Clearance'
    BY <2>1 DEF FailedFor, Clearance, Deploy!Down
  <2> QED
    BY <2>4, <2>5 DEF DeployInv
<1>2. ASSUME NEW k, NEW v, Deploy!WorldChanges(k, v)
      PROVE  DeployInv'
  <2>1. /\ verdict' = Deploy!NoVerdict /\ server'.state # "failed"
        /\ UNCHANGED edited
    BY <1>2 DEF Deploy!WorldChanges, Deploy!Down
  <2>2. Deploy!cfg' = Deploy!cfg
    BY <2>1 DEF Deploy!cfg, Deploy!Over
  <2> QED
    BY <2>1, <2>2 DEF DeployInv, MailTyped, FailedFor, Clearance
<1>3. ASSUME Deploy!Start PROVE DeployInv'
  <2> DEFINE early == \/ Deploy!cfg.file = "broken" \/ Deploy!Validate # {}
                      \/ Deploy!DatabaseFails \/ Deploy!StorageFails
  <2>1. /\ server'.state = "failed" => server'.causes \subseteq Reasons
        /\ moved' = IF early THEN moved ELSE Deploy!BucketMade
        /\ UNCHANGED <<edited, edits, verdict>>
    BY <1>3 DEF Deploy!Start, Reasons
  <2>2. MailTyped' /\ Deploy!cfg' = Deploy!cfg
    BY <2>1 DEF DeployInv, MailTyped, Deploy!cfg, Deploy!Over
  <2>3. Reasons \subseteq Reasons'
    BY <2>1, ReasonsOutlast, SameDeployment
  <2>4. FailedFor'
    BY <2>1, <2>3 DEF FailedFor
  <2>5. Clearance'
    <3>1. SUFFICES ASSUME verdict # Deploy!NoVerdict, "error" \notin verdict.severities
                   PROVE  Deploy!world' = Deploy!world
      BY <2>1, <2>2 DEF DeployInv, Clearance
    <3>2. Deploy!world.bucket \in {"present", "large"}
      BY <3>1, CleanBill DEF DeployInv, Clearance
    <3>3. moved' = moved
      BY <2>1, <3>2 DEF Deploy!BucketMade
    <3> QED
      BY <3>3 DEF Deploy!world, Deploy!Over
  <2> QED
    BY <2>2, <2>4, <2>5 DEF DeployInv
<1>4. ASSUME Deploy!Stop PROVE DeployInv'
  BY <1>4, SameDeployment DEF Deploy!Stop, Deploy!Down, DeployInv, FailedFor, Clearance
<1>5. ASSUME Deploy!Doctor PROVE DeployInv'
  <2>1. /\ verdict'.severities = Deploy!Diagnose(Deploy!cfg, Deploy!world)
        /\ UNCHANGED <<edited, moved, edits, server>>
    BY <1>5 DEF Deploy!Doctor
  <2>2. MailTyped' /\ FailedFor'
    BY <2>1, SameDeployment DEF DeployInv, FailedFor
  <2>3. Clearance'
    BY <2>1, SameDeployment, CleanBill DEF Clearance
  <2> QED
    BY <2>2, <2>3 DEF DeployInv
<1>6. ASSUME NEW restore, NEW bundle, Deploy!Rehearse(restore, bundle) PROVE DeployInv'
  <2>1. /\ UNCHANGED <<edited, edits, server>>
        /\ Deploy!NoRuntime => verdict'.severities = {"error"} /\ UNCHANGED moved
        /\ ~Deploy!NoRuntime =>
             /\ Deploy!Diagnose(Deploy!cfg, Deploy!Over(Deploy!BucketMade, Deploy!Sound))
                  \subseteq verdict'.severities
             /\ moved' = Deploy!BucketMade
    BY <1>6 DEF Deploy!Rehearse
  <2>2. Deploy!cfg' = Deploy!cfg /\ MailTyped'
    BY <2>1 DEF DeployInv, MailTyped, Deploy!cfg, Deploy!Over
  <2>3. CASE Deploy!NoRuntime
    BY <2>1, <2>2, <2>3, SameDeployment DEF DeployInv, FailedFor, Clearance
  <2>4. CASE ~Deploy!NoRuntime
    <3>1. Reasons \subseteq Reasons'
      BY <2>1, <2>4, ReasonsOutlast DEF Deploy!NoRuntime
    <3>2. Deploy!world' = Deploy!Over(Deploy!BucketMade, Deploy!Sound)
      BY <2>1, <2>4 DEF Deploy!world, Deploy!Over
    <3>3. Clearance'
      BY <2>1, <2>2, <2>4, <3>2, CleanBill DEF Clearance
    <3>4. FailedFor'
      BY <2>1, <3>1 DEF DeployInv, FailedFor
    <3> QED
      BY <2>2, <3>3, <3>4 DEF DeployInv
  <2> QED
    BY <2>3, <2>4
<1> QED
  BY <1>1, <1>2, <1>3, <1>4, <1>5, <1>6 DEF Deploy!DeployNext

LEMMA DeployAlways == Spec => []DeployInv
<1>1. Init => DeployInv
  <2> SUFFICES ASSUME Deploy!DeployInit PROVE DeployInv
    BY DEF Init
  <2>1. Deploy!cfg.smtp = "on" /\ Deploy!cfg.smtpTLS = "valid"
    <3>1. edited = <<>> /\ "smtp" \notin DOMAIN edited /\ "smtpTLS" \notin DOMAIN edited
      BY DEF Deploy!DeployInit
    <3>2. /\ "smtp" \in DOMAIN Deploy!Working /\ "smtpTLS" \in DOMAIN Deploy!Working
          /\ Deploy!Working.smtp = "on" /\ Deploy!Working.smtpTLS = "valid"
      BY DEF Deploy!Working
    <3> QED
      BY <3>1, <3>2 DEF Deploy!cfg, Deploy!Over
  <2>2. MailTyped
    BY <2>1 DEF MailTyped
  <2>3. FailedFor /\ Clearance
    BY DEF Deploy!DeployInit, Deploy!Down, FailedFor, Clearance
  <2> QED
    BY <2>2, <2>3 DEF DeployInv
<1>2. DeployInv /\ [Next]_vars => DeployInv'
  <2> SUFFICES ASSUME DeployInv, [Next]_vars PROVE DeployInv'
    OBVIOUS
  <2>1. CASE UNCHANGED deployVars
    BY <2>1, SameDeployment DEF deployVars, DeployInv, FailedFor, Clearance
  <2> QED
    BY <2>1, PartStep, DeployStep
<1> QED
  BY <1>1, <1>2, PTL DEF Spec

\* After a doctor or a rehearsal without errors, and as long as nothing has changed, a
\* start fails for one of the doctor's blind spots only, and a server that runs is
\* ready unless the maintenance mode was warned of or the bucket is too large to be
\* listed in time; for any number of changed settings and surroundings, where the run
\* checks two (RunCE, rehearsal, main, Readyz).
THEOREM ClearanceHolds == Spec => []ClearedStarts
<1>1. DeployInv => ClearedStarts
  <2> SUFFICES ASSUME DeployInv, verdict # Deploy!NoVerdict, "error" \notin verdict.severities
               PROVE  /\ server.state = "failed" => server.causes \subseteq Deploy!BlindSpots
                      /\ server.state = "up" => \/ Deploy!Readyz # "unhealthy"
                                                \/ "maintenance" \in verdict.severities
                                                \/ Deploy!world.bucket = "large"
    BY DEF ClearedStarts, Deploy!ClearedStarts
  <2>1. "error" \notin Deploy!Diagnose(Deploy!cfg, Deploy!world)
    BY DEF DeployInv, Clearance
  <2>2. Reasons \subseteq Deploy!BlindSpots
    BY <2>1, OnlyBlindSpots DEF DeployInv
  <2>3. Deploy!world.database # "down" /\ Deploy!world.bucket \in {"present", "large"}
    BY <2>1, CleanBill
  <2>4. "maintenance" \in verdict.severities \/ Deploy!world.maintenance # "on"
    BY DEF DeployInv, Clearance
  <2> QED
    BY <2>2, <2>3, <2>4 DEF DeployInv, FailedFor, Deploy!Readyz
<1> QED
  BY <1>1, DeployAlways, PTL

-----------------------------------------------------------------------------
(***************************************************************************)
(* Migrations                                                              *)
(***************************************************************************)
LEMMA LeastElement ==
  ASSUME NEW S \in SUBSET Nat, S # {}
  PROVE  \E m \in S : \A u \in S : m <= u
<1> DEFINE less == OpToRel(<, Nat)
<1>1. \E m \in S : \A u \in S : ~(<<u, m>> \in less)
  BY WFMin, NatLessThanWellFounded
<1>2. \A u, m \in Nat : u < m => <<u, m>> \in less
  BY DEF OpToRel
<1> HIDE DEF less
<1>3. PICK m \in S : \A u \in S : ~(<<u, m>> \in less)
  BY <1>1
<1>4. \A u \in S : ~(u < m) /\ u \in Nat /\ m \in Nat
  BY <1>2, <1>3
<1>5. \A u \in S : m <= u
  BY <1>4
<1> QED
  BY <1>5

\* The greatest element is the least of the bounds.
LEMMA GreatestElement ==
  ASSUME NEW S \in SUBSET Nat, S # {}, NEW n \in Nat, \A u \in S : u <= n
  PROVE  \E m \in S : \A u \in S : u <= m
<1> DEFINE bounds == {b \in Nat : \A u \in S : u <= b}
<1>1. PICK m \in bounds : \A b \in bounds : m <= b
  <2>1. bounds \in SUBSET Nat /\ n \in bounds
    OBVIOUS
  <2> HIDE DEF bounds
  <2> QED
    BY <2>1, LeastElement
<1>2. m \in Nat /\ \A u \in S : u <= m
  OBVIOUS
<1>3. m \in S
  <2>1. SUFFICES ASSUME m \notin S PROVE FALSE
    OBVIOUS
  <2>2. PICK u \in S : TRUE
    OBVIOUS
  <2>3. \A w \in S : w \in Nat /\ w < m
    BY <1>2, <2>1
  <2>4. m - 1 \in Nat /\ \A w \in S : w <= m - 1
    BY <1>2, <2>2, <2>3
  <2>5. m - 1 \in bounds
    BY <2>4
  <2> QED
    BY <1>1, <1>2, <2>5
<1> QED
  BY <1>2, <1>3

Plans == {p \in SUBSET Nat : p # {} /\ \E n \in Releases : p \subseteq 1..n}
Migrating == [pc : {"script", "record"}, up : BOOLEAN, plan : Plans]
Inspecting == [pc : {"drift", "done"}, release : Releases, alone : BOOLEAN, clean : BOOLEAN]

MigrationShape ==
  /\ schema \in SUBSET Nat /\ tracked \in SUBSET Nat /\ IsFiniteSet(tracked)
  /\ command \in [Runners -> {Migration!NoCommand} \cup Migrating]
  /\ mixed \in BOOLEAN
  /\ inspection \in {Migration!NoInspection} \cup Inspecting

\* The version a command is at.
FirstOf(plan, up) == CHOOSE v \in plan : \A u \in plan : IF up THEN v <= u ELSE u <= v
First(c) == FirstOf(c.plan, c.up)

Moving(c) == c # Migration!NoCommand
Recording(c) == Moving(c) /\ c.pc = "record"

LEMMA FirstOfPlan ==
  ASSUME NEW c \in Migrating
  PROVE  /\ First(c) \in c.plan /\ First(c) \in Nat /\ c.plan \in SUBSET Nat
         /\ \A u \in c.plan : IF c.up THEN First(c) <= u ELSE u <= First(c)
<1>1. c.plan \in SUBSET Nat /\ c.plan # {} /\ c.up \in BOOLEAN
  BY DEF Migrating, Plans
<1>2. PICK n \in Nat : \A u \in c.plan : u <= n
  <2>1. PICK n \in Releases : c.plan \subseteq 1..n
    BY DEF Migrating, Plans
  <2>2. n \in Nat
    BY PartsAssumption
  <2>3. \A u \in c.plan : u <= n
    BY <2>1, <2>2
  <2> QED
    BY <2>2, <2>3
<1>3. \E v \in c.plan : \A u \in c.plan : IF c.up THEN v <= u ELSE u <= v
  <2>1. CASE c.up
    BY <1>1, <2>1, LeastElement
  <2>2. CASE ~c.up
    BY <1>1, <1>2, <2>2, GreatestElement
  <2> QED
    BY <2>1, <2>2
<1>4. /\ First(c) \in c.plan
      /\ \A u \in c.plan : IF c.up THEN First(c) <= u ELSE u <= First(c)
  BY <1>3 DEF First, FirstOf
<1> QED
  BY <1>1, <1>4

\* The versions of commands that are between their two statements.
Between == {First(command[r]) : r \in {q \in Runners : Recording(command[q])}}

\* While no up runs beside a down, all that run go the same way,
OneWay ==
  \A r, q \in Runners :
    Moving(command[r]) /\ Moving(command[q]) => (command[r].up <=> command[q].up)

\* the rows are an initial segment,
Segment == \A v \in tracked : 1..v \subseteq tracked

\* an up has planned or found everything below what it has planned,
UpsFollow ==
  \A r \in Runners :
    Moving(command[r]) /\ command[r].up =>
      \A v \in command[r].plan : \A u \in 1..(v - 1) : u \in command[r].plan \cup tracked

\* a down has planned everything above what it has planned,
DownsLead ==
  \A r \in Runners :
    Moving(command[r]) /\ ~command[r].up =>
      \A v \in command[r].plan, u \in tracked : u \in command[r].plan \/ u < v

\* a script that has run has had its effect,
Scripted ==
  \A r \in Runners :
    Recording(command[r]) => (First(command[r]) \in schema <=> command[r].up)

\* and rows and objects agree elsewhere.
RowsAgree ==
  \A v \in (tracked \cup schema) \ (doubt \cup Between) : v \in tracked /\ v \in schema

\* What a doctor has found is still so if no statement came after it.
Inspected ==
  inspection # Migration!NoInspection /\ inspection.alone /\ inspection.clean =>
    /\ 1..inspection.release \subseteq tracked
    /\ inspection.pc = "done" => Watched \cap (1..inspection.release) \subseteq schema

Orderly == OneWay /\ Segment /\ UpsFollow /\ DownsLead /\ Scripted /\ RowsAgree

MigrationInv == MigrationShape /\ (~mixed => Orderly) /\ Inspected

LEMMA RunnerMoves ==
  ASSUME MigrationShape, NEW r \in Runners
  PROVE  /\ Migration!Busy(r) <=> Moving(command[r])
         /\ Migration!Busy(r) =>
              command[r] \in Migrating /\ Migration!Current(r) = First(command[r])
         /\ Migration!Quit(r) =>
              /\ command' \in [Runners -> {Migration!NoCommand} \cup Migrating]
              /\ command'[r] = Migration!NoCommand
              /\ \A q \in Runners \ {r} : command'[q] = command[q]
         /\ Migration!Busy(r) /\ command' = [command EXCEPT ![r].pc = "record"] =>
              /\ command' \in [Runners -> {Migration!NoCommand} \cup Migrating]
              /\ command'[r] \in Migrating /\ command'[r].pc = "record"
              /\ command'[r].up = command[r].up /\ command'[r].plan = command[r].plan
              /\ \A q \in Runners \ {r} : command'[q] = command[q]
<1>1. command[r] \in {Migration!NoCommand} \cup Migrating
  BY DEF MigrationShape
<1>2. Migration!Busy(r) <=> Moving(command[r])
  BY DEF Migration!Busy, Moving
<1>3. ASSUME Migration!Busy(r)
      PROVE  command[r] \in Migrating /\ Migration!Current(r) = First(command[r])
  BY <1>1, <1>3 DEF Migration!Busy, Migration!Current, First, FirstOf
<1>4. ASSUME Migration!Quit(r)
      PROVE  /\ command' \in [Runners -> {Migration!NoCommand} \cup Migrating]
             /\ command'[r] = Migration!NoCommand
             /\ \A q \in Runners \ {r} : command'[q] = command[q]
  BY <1>4 DEF Migration!Quit, MigrationShape
<1>5. ASSUME Migration!Busy(r), command' = [command EXCEPT ![r].pc = "record"]
      PROVE  /\ command' \in [Runners -> {Migration!NoCommand} \cup Migrating]
             /\ command'[r] \in Migrating /\ command'[r].pc = "record"
             /\ command'[r].up = command[r].up /\ command'[r].plan = command[r].plan
             /\ \A q \in Runners \ {r} : command'[q] = command[q]
  <2>1. command' = [command EXCEPT ![r] = [command[r] EXCEPT !.pc = "record"]]
    BY <1>5 DEF MigrationShape
  <2>2. /\ [command[r] EXCEPT !.pc = "record"] \in Migrating
        /\ [command[r] EXCEPT !.pc = "record"].pc = "record"
        /\ [command[r] EXCEPT !.pc = "record"].up = command[r].up
        /\ [command[r] EXCEPT !.pc = "record"].plan = command[r].plan
    BY <1>3, <1>5 DEF Migrating
  <2> QED
    BY <2>1, <2>2 DEF MigrationShape
<1> QED
  BY <1>2, <1>3, <1>4, <1>5

\* What a statement leaves to the doctor.
LEMMA Disturbed ==
  ASSUME MigrationShape, Migration!Disturb
  PROVE  inspection' \in {Migration!NoInspection} \cup Inspecting /\ Inspected'
<1>1. CASE inspection = Migration!NoInspection
  BY <1>1 DEF Migration!Disturb, Inspected
<1>2. CASE inspection # Migration!NoInspection
  <2>1. inspection \in Inspecting /\ inspection' = [inspection EXCEPT !.alone = FALSE]
    BY <1>2 DEF Migration!Disturb, MigrationShape
  <2>2. inspection' \in Inspecting /\ ~inspection'.alone
    BY <2>1 DEF Inspecting
  <2> QED
    BY <2>2 DEF Inspected
<1> QED
  BY <1>1, <1>2

LEMMA SameMigrationCardinality ==
  ASSUME NEW S
  PROVE  Migration!Cardinality(S) = Cardinality(S)
BY DEF Migration!Cardinality, Cardinality

\* The last n of the rows are those above all the others.
LEMMA LatestAbove ==
  ASSUME NEW S \in SUBSET Nat, IsFiniteSet(S), NEW n \in Int
  PROVE  \A v \in Migration!Latest(S, n), u \in S : u \in Migration!Latest(S, n) \/ u < v
<1> DEFINE above(v) == {w \in S : w > v}
<1>1. \A v : Migration!Cardinality(above(v)) = Cardinality(above(v))
  BY SameMigrationCardinality
<1>2. SUFFICES ASSUME NEW v \in S, NEW u \in S, Cardinality(above(v)) < n, ~(u < v)
               PROVE  Cardinality(above(u)) < n
  BY <1>1 DEF Migration!Latest
<1>3. above(u) \in SUBSET above(v) /\ above(v) \in SUBSET S
  <2>1. \A w \in S : w > u => w > v
    BY <1>2
  <2> QED
    BY <2>1
<1>4. IsFiniteSet(above(v)) /\ IsFiniteSet(above(u))
  BY <1>3, FS_Subset
<1> HIDE DEF above
<1>5. /\ Cardinality(above(u)) <= Cardinality(above(v))
      /\ Cardinality(above(u)) \in Nat /\ Cardinality(above(v)) \in Nat
  BY <1>3, <1>4, FS_Subset, FS_CardinalityType
<1> QED
  BY <1>2, <1>5

\* A command begins: it runs beside others of its own kind, or mixed is set.
LEMMA BeginStep ==
  ASSUME MigrationInv, NEW r \in Runners, NEW up \in BOOLEAN, NEW plan \in Plans,
         Migration!Begin(r, up, plan),
         up => \A v \in plan : \A u \in 1..(v - 1) : u \in plan \cup tracked,
         ~up => \A v \in plan, u \in tracked : u \in plan \/ u < v
  PROVE  MigrationInv'
<1> DEFINE new == [pc |-> "script", up |-> up, plan |-> plan]
<1>1. /\ command[r] = Migration!NoCommand
      /\ command' = [command EXCEPT ![r] = new]
      /\ mixed' = (mixed \/ \E q \in Runners : Moving(command[q]) /\ command[q].up # up)
      /\ UNCHANGED <<schema, tracked, doubt, inspection>>
  BY DEF Migration!Begin, Migration!Busy, Moving
<1>2. new \in Migrating /\ new.pc = "script" /\ new.up = up /\ new.plan = plan
  BY DEF Migrating
<1>3. command[r] = Migration!NoCommand /\ command \in [Runners -> {Migration!NoCommand} \cup Migrating]
  BY <1>1 DEF MigrationInv, MigrationShape
<1> HIDE DEF new
<1>4. /\ command' \in [Runners -> {Migration!NoCommand} \cup Migrating]
      /\ command'[r] = new /\ \A q \in Runners \ {r} : command'[q] = command[q]
  BY <1>1, <1>2, <1>3
<1>5. mixed' \in BOOLEAN
  BY <1>1
<1>6. MigrationShape'
  BY <1>1, <1>4, <1>5 DEF MigrationInv, MigrationShape
<1>7. Inspected'
  BY <1>1 DEF MigrationInv, Inspected
<1>8. ASSUME ~mixed' PROVE Orderly'
  <2>1. ~mixed /\ \A q \in Runners : Moving(command[q]) => command[q].up = up
    BY <1>1, <1>8
  <2>2. Orderly
    BY <2>1 DEF MigrationInv
  <2>3. OneWay'
    <3>1. \A q \in Runners : Moving(command'[q]) => command'[q].up = up
      BY <1>2, <1>4, <2>1
    <3> QED
      BY <3>1 DEF OneWay
  <2>4. Segment'
    BY <1>1, <2>2 DEF Orderly, Segment
  <2>5. UpsFollow'
    BY <1>1, <1>2, <1>4, <2>2 DEF Orderly, UpsFollow
  <2>6. DownsLead'
    BY <1>1, <1>2, <1>4, <2>2 DEF Orderly, DownsLead
  <2>7. \A q \in Runners : Recording(command'[q]) <=> q # r /\ Recording(command[q])
    BY <1>2, <1>3, <1>4 DEF Recording, Moving
  <2>8. Scripted'
    BY <1>1, <1>4, <2>2, <2>7 DEF Orderly, Scripted
  <2>9. Between' = Between
    BY <1>3, <1>4, <2>7 DEF Between, Recording, Moving
  <2>10. RowsAgree'
    BY <1>1, <2>2, <2>9 DEF Orderly, RowsAgree
  <2> QED
    BY <2>3, <2>4, <2>5, <2>6, <2>8, <2>10 DEF Orderly
<1> QED
  BY <1>6, <1>7, <1>8 DEF MigrationInv

LEMMA PlansMade ==
  ASSUME MigrationInv, NEW r \in Runners, NEW release \in Releases
  PROVE  /\ Migration!Up(r, release) => MigrationInv'
         /\ \A n \in Migration!Versions : Migration!Down(r, release, n) => MigrationInv'
<1>0. release \in Nat /\ tracked \in SUBSET Nat /\ IsFiniteSet(tracked)
  BY PartsAssumption DEF MigrationInv, MigrationShape
<1>1. ASSUME Migration!Up(r, release) PROVE MigrationInv'
  <2> DEFINE plan == (1..release) \ tracked
  <2>1. Migration!Begin(r, TRUE, plan)
    BY <1>1 DEF Migration!Up, Migration!Pending, Migration!Embedded
  <2>2. plan \in Plans
    BY <1>0, <2>1 DEF Migration!Begin, Plans
  <2>3. \A v \in plan : \A u \in 1..(v - 1) : u \in plan \cup tracked
    BY <1>0
  <2> HIDE DEF plan
  <2> QED
    BY <2>1, <2>2, <2>3, BeginStep
<1>2. ASSUME NEW n \in Migration!Versions, Migration!Down(r, release, n)
      PROVE  MigrationInv'
  <2> DEFINE plan == Migration!Latest(tracked, n)
  <2>0. n \in Int
    BY DEF Migration!Versions
  <2>1. Migration!Begin(r, FALSE, plan) /\ plan \subseteq 1..release /\ plan # {}
    BY <1>2 DEF Migration!Down, Migration!RollbackPlan, Migration!Embedded, Migration!Begin
  <2>2. plan \in Plans
    <3>1. plan \in SUBSET Nat
      BY <1>0 DEF Migration!Latest
    <3> QED
      BY <2>1, <3>1 DEF Plans
  <2>3. \A v \in plan, u \in tracked : u \in plan \/ u < v
    BY <1>0, <2>0, LatestAbove
  <2> HIDE DEF plan
  <2> QED
    BY <2>1, <2>2, <2>3, BeginStep
<1> QED
  BY <1>1, <1>2

\* A script runs: its version is between, whoever else is.
LEMMA ExecStep ==
  ASSUME MigrationInv, NEW r \in Runners, Migration!ExecScript(r)
  PROVE  MigrationInv'
<1> DEFINE c == command[r]
           v == First(command[r])
<1>0. MigrationShape /\ Migration!Busy(r) /\ c.pc = "script"
  BY DEF MigrationInv, Migration!ExecScript
<1>1. /\ c \in Migrating /\ Migration!Current(r) = v
      /\ v \in Nat /\ Moving(c)
  BY <1>0, RunnerMoves, FirstOfPlan
<1>2. /\ command' = [command EXCEPT ![r].pc = "record"]
      /\ schema' = IF c.up THEN schema \cup {v} ELSE schema \ {v}
      /\ UNCHANGED <<tracked, doubt, mixed>> /\ Migration!Disturb
  BY <1>1 DEF Migration!ExecScript, Migration!Applied
<1>3. /\ command' \in [Runners -> {Migration!NoCommand} \cup Migrating]
      /\ command'[r] \in Migrating /\ command'[r].pc = "record"
      /\ command'[r].up = c.up /\ command'[r].plan = c.plan
      /\ \A q \in Runners \ {r} : command'[q] = command[q]
  BY <1>0, <1>2, RunnerMoves
<1>4. First(command'[r]) = v /\ Moving(command'[r]) /\ Recording(command'[r])
  <2>1. Moving(command'[r])
    BY <1>3 DEF Moving, Migrating, Migration!NoCommand
  <2> QED
    BY <1>3, <2>1 DEF First, Recording
<1>5. inspection' \in {Migration!NoInspection} \cup Inspecting /\ Inspected'
  BY <1>0, <1>2, Disturbed
<1>6. MigrationShape'
  <2>1. schema' \in SUBSET Nat
    BY <1>0, <1>1, <1>2 DEF MigrationShape
  <2> QED
    BY <1>0, <1>2, <1>3, <1>5, <2>1 DEF MigrationShape
<1>7. ASSUME ~mixed' PROVE Orderly'
  <2>1. Orderly
    BY <1>2, <1>7 DEF MigrationInv
  <2>2. OneWay'
    BY <1>1, <1>3, <1>4, <2>1 DEF Orderly, OneWay
  <2>3. Segment'
    BY <1>2, <2>1 DEF Orderly, Segment
  <2>4. UpsFollow' /\ DownsLead'
    BY <1>1, <1>2, <1>3, <2>1 DEF Orderly, UpsFollow, DownsLead
  <2>5. Scripted'
    <3>1. ASSUME NEW q \in Runners \ {r}, Recording(command'[q])
          PROVE  First(command'[q]) \in schema' <=> command'[q].up
      <4>1. command'[q] = command[q] /\ Moving(command[q])
        BY <1>3, <3>1 DEF Recording
      <4>2. command[q].up <=> c.up
        BY <1>1, <2>1, <4>1 DEF Orderly, OneWay
      <4>3. First(command[q]) \in schema <=> command[q].up
        BY <2>1, <3>1, <4>1 DEF Orderly, Scripted
      <4> QED
        BY <1>2, <4>1, <4>2, <4>3
    <3>2. First(command'[r]) \in schema' <=> command'[r].up
      BY <1>2, <1>3, <1>4
    <3> QED
      BY <3>1, <3>2 DEF Scripted
  <2>6. RowsAgree'
    <3>1. Between \cup {v} \subseteq Between'
      <4>1. \A q \in Runners : Recording(command[q]) => command'[q] = command[q]
        BY <1>0, <1>3 DEF Recording
      <4> QED
        BY <1>4, <4>1 DEF Between
    <3>2. \A u \in (tracked' \cup schema') \ (doubt' \cup Between') :
            u \in (tracked \cup schema) \ (doubt \cup Between) /\ u # v
      BY <1>2, <3>1
    <3> QED
      BY <1>2, <2>1, <3>2 DEF Orderly, RowsAgree
  <2> QED
    BY <2>2, <2>3, <2>4, <2>5, <2>6 DEF Orderly
<1> QED
  BY <1>5, <1>6, <1>7 DEF MigrationInv

\* What a command leaves behind when it ends: nothing to agree on, or a version in
\* doubt.
LEMMA QuitStep ==
  ASSUME MigrationInv, NEW r \in Runners, Migration!Quit(r),
         UNCHANGED <<schema, tracked, doubt, inspection, mixed>>,
         ~mixed /\ Recording(command[r]) =>
           (First(command[r]) \in tracked <=> First(command[r]) \in schema)
  PROVE  MigrationInv'
<1>0. MigrationShape
  BY DEF MigrationInv
<1>1. /\ command' \in [Runners -> {Migration!NoCommand} \cup Migrating]
      /\ command'[r] = Migration!NoCommand
      /\ \A q \in Runners \ {r} : command'[q] = command[q]
  BY <1>0, RunnerMoves
<1>2. MigrationShape' /\ Inspected'
  BY <1>0, <1>1 DEF MigrationInv, MigrationShape, Inspected
<1>3. ASSUME ~mixed' PROVE Orderly'
  <2>1. Orderly
    BY <1>3 DEF MigrationInv
  <2>2. OneWay' /\ UpsFollow' /\ DownsLead' /\ Scripted'
    BY <1>1, <2>1 DEF Orderly, OneWay, UpsFollow, DownsLead, Scripted, Recording, Moving
  <2>3. Segment'
    BY <2>1 DEF Orderly, Segment
  <2>4. RowsAgree'
    <3>1. \A u \in Between : u \in Between' \/ (Recording(command[r]) /\ u = First(command[r]))
      BY <1>1 DEF Between
    <3> QED
      BY <1>3, <2>1, <3>1 DEF Orderly, RowsAgree
  <2> QED
    BY <2>2, <2>3, <2>4 DEF Orderly
<1> QED
  BY <1>2, <1>3 DEF MigrationInv

\* The row of the version a command is at goes in or out: the rows stay a segment, and
\* the other commands' plans stay what they were.
LEMMA RowStep ==
  ASSUME MigrationShape, Orderly, NEW r \in Runners, Migration!Busy(r),
         tracked' \in {tracked, Migration!Recorded(r)}
  PROVE  /\ Segment'
         /\ \A q \in Runners :
              Moving(command[q]) /\ command[q].up =>
                \A v \in command[q].plan : \A u \in 1..(v - 1) : u \in command[q].plan \cup tracked'
         /\ \A q \in Runners :
              Moving(command[q]) /\ ~command[q].up =>
                \A v \in command[q].plan, u \in tracked' : u \in command[q].plan \/ u < v
<1> DEFINE c == command[r]
           x == First(command[r])
<1>1. /\ c \in Migrating /\ Migration!Current(r) = x
      /\ x \in Nat /\ Moving(c) /\ x \in c.plan
      /\ \A u \in c.plan : u \in Nat /\ IF c.up THEN x <= u ELSE u <= x
  BY RunnerMoves, FirstOfPlan
<1>2. tracked' \in {tracked, IF c.up THEN tracked \cup {x} ELSE tracked \ {x}}
  BY <1>1 DEF Migration!Recorded
<1>3. \A q \in Runners : Moving(command[q]) => (command[q].up <=> c.up)
  BY <1>1 DEF Orderly, OneWay
<1>4. tracked \in SUBSET Nat /\ \A v \in tracked : 1..v \subseteq tracked
  BY DEF MigrationShape, Orderly, Segment
<1>5. CASE c.up
  <2>1. \A u \in 1..(x - 1) : u \in tracked
    <3>1. \A u \in 1..(x - 1) : u \in c.plan \cup tracked
      BY <1>1, <1>5 DEF Orderly, UpsFollow
    <3> QED
      BY <1>1, <1>5, <3>1
  <2>2. tracked \subseteq tracked' /\ tracked' \subseteq tracked \cup {x}
    BY <1>2, <1>5
  <2>3. \A v \in tracked' : 1..v \subseteq tracked'
    <3>1. ASSUME NEW v \in tracked', NEW u \in 1..v PROVE u \in tracked'
      <4>1. CASE v \in tracked
        BY <1>4, <2>2, <3>1, <4>1
      <4>2. CASE v = x
        BY <1>1, <2>1, <2>2, <3>1, <4>2
      <4> QED
        BY <2>2, <3>1, <4>1, <4>2
    <3> QED
      BY <3>1
  <2>4. Segment'
    BY <2>3 DEF Segment
  <2> QED
    BY <1>3, <1>5, <2>2, <2>4 DEF Orderly, UpsFollow
<1>6. CASE ~c.up
  <2>1. \A u \in tracked : u <= x
    <3>1. \A u \in tracked : u \in c.plan \/ u < x
      BY <1>1, <1>6 DEF Orderly, DownsLead
    <3> QED
      BY <1>1, <1>4, <1>6, <3>1
  <2>2. tracked' \subseteq tracked /\ tracked \ {x} \subseteq tracked' /\ (x \in tracked' => tracked' = tracked)
    BY <1>2, <1>6
  <2>3. \A v \in tracked' : 1..v \subseteq tracked'
    <3>1. ASSUME NEW v \in tracked', NEW u \in 1..v PROVE u \in tracked'
      <4>1. u \in tracked /\ v \in Nat /\ v <= x
        BY <1>4, <2>1, <2>2, <3>1
      <4>2. CASE u # x
        BY <2>2, <4>1, <4>2
      <4>3. CASE u = x
        BY <1>1, <2>2, <3>1, <4>1, <4>3
      <4> QED
        BY <4>2, <4>3
    <3> QED
      BY <3>1
  <2>4. Segment'
    BY <2>3 DEF Segment
  <2> QED
    BY <1>3, <1>6, <2>2, <2>4 DEF Orderly, DownsLead
<1> QED
  BY <1>5, <1>6

LEMMA RowsFinite ==
  ASSUME MigrationShape, NEW r \in Runners, Migration!Busy(r),
         tracked' \in {tracked, Migration!Recorded(r)}
  PROVE  tracked' \in SUBSET Nat /\ IsFiniteSet(tracked')
<1>1. Migration!Current(r) \in Nat
  BY RunnerMoves, FirstOfPlan
<1>2. tracked \in SUBSET Nat /\ IsFiniteSet(tracked)
  BY DEF MigrationShape
<1>3. /\ tracked \cup {Migration!Current(r)} \in SUBSET Nat
      /\ IsFiniteSet(tracked \cup {Migration!Current(r)})
      /\ tracked \ {Migration!Current(r)} \in SUBSET Nat
      /\ IsFiniteSet(tracked \ {Migration!Current(r)})
  BY <1>1, <1>2, FS_AddElement, FS_RemoveElement
<1> QED
  BY <1>2, <1>3 DEF Migration!Recorded

\* The answer of a statement is lost.
LEMMA LostStep ==
  ASSUME MigrationInv, NEW r \in Runners, Migration!Lost(r)
  PROVE  MigrationInv'
<1> DEFINE c == command[r]
           x == First(command[r])
<1>0. MigrationShape /\ Migration!Busy(r) /\ Migration!Disturb
  BY DEF MigrationInv, Migration!Lost
<1>1. c \in Migrating /\ Migration!Current(r) = x /\ x \in Nat /\ Moving(c)
  BY <1>0, RunnerMoves, FirstOfPlan
<1>2. /\ command' \in [Runners -> {Migration!NoCommand} \cup Migrating]
      /\ command'[r] = Migration!NoCommand
      /\ \A q \in Runners \ {r} : command'[q] = command[q]
  BY <1>0, RunnerMoves DEF Migration!Lost
<1>3. /\ tracked' \in {tracked, Migration!Recorded(r)}
      /\ schema' \in {schema, IF c.up THEN schema \cup {x} ELSE schema \ {x}}
      /\ doubt' = doubt \cup {x} /\ mixed' = mixed
  BY <1>1 DEF Migration!Lost, Migration!Applied
<1>4. inspection' \in {Migration!NoInspection} \cup Inspecting /\ Inspected'
  BY <1>0, Disturbed
<1>5. MigrationShape'
  <2>1. schema' \in SUBSET Nat
    BY <1>0, <1>1, <1>3 DEF MigrationShape
  <2>2. tracked' \in SUBSET Nat /\ IsFiniteSet(tracked')
    BY <1>0, <1>3, RowsFinite
  <2> QED
    BY <1>0, <1>2, <1>3, <1>4, <2>1, <2>2 DEF MigrationShape
<1>6. ASSUME ~mixed' PROVE Orderly'
  <2>1. Orderly
    BY <1>3, <1>6 DEF MigrationInv
  <2>2. /\ Segment'
        /\ \A q \in Runners :
             Moving(command[q]) /\ command[q].up =>
               \A v \in command[q].plan : \A u \in 1..(v - 1) : u \in command[q].plan \cup tracked'
        /\ \A q \in Runners :
             Moving(command[q]) /\ ~command[q].up =>
               \A v \in command[q].plan, u \in tracked' : u \in command[q].plan \/ u < v
    BY <1>0, <1>3, <2>1, RowStep
  <2>3. \A q \in Runners : Moving(command'[q]) => q # r /\ command'[q] = command[q]
    BY <1>2 DEF Moving
  <2>4. OneWay' /\ UpsFollow' /\ DownsLead'
    BY <2>1, <2>2, <2>3 DEF Orderly, OneWay, UpsFollow, DownsLead
  <2>5. Scripted'
    <3>1. ASSUME NEW q \in Runners, Recording(command'[q])
          PROVE  First(command'[q]) \in schema' <=> command'[q].up
      <4>1. command'[q] = command[q] /\ Moving(command[q]) /\ Recording(command[q])
        BY <2>3, <3>1 DEF Recording
      <4>2. command[q].up <=> c.up
        BY <1>1, <2>1, <4>1 DEF Orderly, OneWay
      <4>3. First(command[q]) \in schema <=> command[q].up
        BY <2>1, <4>1 DEF Orderly, Scripted
      <4> QED
        BY <1>3, <4>1, <4>2, <4>3
    <3> QED
      BY <3>1 DEF Scripted
  <2>6. RowsAgree'
    <3>1. Between \subseteq Between' \cup {x}
      BY <1>2 DEF Between
    <3>2. \A u : u # x => (u \in tracked' <=> u \in tracked) /\ (u \in schema' <=> u \in schema)
      BY <1>1, <1>3 DEF Migration!Recorded
    <3> QED
      BY <1>3, <2>1, <3>1, <3>2 DEF Orderly, RowsAgree
  <2> QED
    BY <2>2, <2>4, <2>5, <2>6 DEF Orderly
<1> QED
  BY <1>4, <1>5, <1>6 DEF MigrationInv

\* The row is written: rows and objects agree on the version, and the command goes on
\* to the next one of its plan.
LEMMA RecordStep ==
  ASSUME MigrationInv, NEW r \in Runners, Migration!Record(r)
  PROVE  MigrationInv'
<1> DEFINE c == command[r]
           x == First(command[r])
           next == [command[r] EXCEPT !.pc = "script", !.plan = @ \ {x}]
<1>0. /\ MigrationShape /\ Migration!Busy(r) /\ Migration!Disturb /\ c.pc = "record"
      /\ tracked' = Migration!Recorded(r)
  BY DEF MigrationInv, Migration!Record
<1>1. /\ c \in Migrating /\ Migration!Current(r) = x /\ x \in Nat /\ Moving(c)
      /\ Recording(c) /\ x \in c.plan /\ c.plan \in Plans
  BY <1>0, RunnerMoves, FirstOfPlan DEF Recording, Migrating
<1>2. /\ tracked' = IF c.up THEN tracked \cup {x} ELSE tracked \ {x}
      /\ doubt' = doubt \ {x} /\ UNCHANGED <<schema, mixed>>
      /\ command' = [command EXCEPT ![r] = IF c.plan = {x} THEN Migration!NoCommand ELSE next]
  BY <1>0, <1>1 DEF Migration!Record, Migration!Recorded
<1>3. next.pc = "script" /\ next.up = c.up /\ next.plan = c.plan \ {x}
  BY <1>1 DEF Migrating
<1>4. c.plan # {x} => next \in Migrating
  <2>1. c.plan # {x} => c.plan \ {x} \in Plans
    BY <1>1 DEF Plans
  <2> QED
    BY <1>1, <2>1 DEF Migrating
<1> HIDE DEF next
<1>5. /\ command' \in [Runners -> {Migration!NoCommand} \cup Migrating]
      /\ \/ command'[r] = Migration!NoCommand
         \/ /\ command'[r].pc = "script" /\ command'[r].up = c.up
            /\ command'[r].plan = c.plan \ {x}
      /\ \A q \in Runners \ {r} : command'[q] = command[q]
  BY <1>0, <1>2, <1>3, <1>4 DEF MigrationShape
<1>6. inspection' \in {Migration!NoInspection} \cup Inspecting /\ Inspected'
  BY <1>0, Disturbed
<1>7. MigrationShape'
  <2>1. tracked' \in SUBSET Nat /\ IsFiniteSet(tracked')
    BY <1>0, RowsFinite
  <2> QED
    BY <1>0, <1>2, <1>5, <1>6, <2>1 DEF MigrationShape
<1>8. ASSUME ~mixed' PROVE Orderly'
  <2>1. Orderly
    BY <1>2, <1>8 DEF MigrationInv
  <2>2. /\ Segment'
        /\ \A q \in Runners :
             Moving(command[q]) /\ command[q].up =>
               \A v \in command[q].plan : \A u \in 1..(v - 1) : u \in command[q].plan \cup tracked'
        /\ \A q \in Runners :
             Moving(command[q]) /\ ~command[q].up =>
               \A v \in command[q].plan, u \in tracked' : u \in command[q].plan \/ u < v
    BY <1>0, <2>1, RowStep
  <2>3. OneWay'
    BY <1>1, <1>5, <2>1 DEF Orderly, OneWay, Moving
  <2>4. UpsFollow'
    <3>1. ASSUME NEW q \in Runners, Moving(command'[q]), command'[q].up,
                 NEW v \in command'[q].plan, NEW u \in 1..(v - 1)
          PROVE  u \in command'[q].plan \cup tracked'
      <4>1. CASE q = r
        BY <1>1, <1>2, <1>5, <2>2, <3>1, <4>1 DEF Moving
      <4>2. CASE q # r
        BY <1>5, <2>2, <3>1, <4>2
      <4> QED
        BY <4>1, <4>2
    <3> QED
      BY <3>1 DEF UpsFollow
  <2>5. DownsLead'
    <3>1. ASSUME NEW q \in Runners, Moving(command'[q]), ~command'[q].up,
                 NEW v \in command'[q].plan, NEW u \in tracked'
          PROVE  u \in command'[q].plan \/ u < v
      <4>1. CASE q = r
        BY <1>1, <1>2, <1>5, <2>2, <3>1, <4>1 DEF Moving
      <4>2. CASE q # r
        BY <1>5, <2>2, <3>1, <4>2
      <4> QED
        BY <4>1, <4>2
    <3> QED
      BY <3>1 DEF DownsLead
  <2>6. \A q \in Runners : Recording(command'[q]) => q # r /\ command'[q] = command[q]
    BY <1>5 DEF Recording, Moving
  <2>7. Scripted'
    BY <1>2, <2>1, <2>6 DEF Orderly, Scripted
  <2>8. RowsAgree'
    <3>1. Between \subseteq Between' \cup {x}
      BY <1>5 DEF Between
    <3>2. x \in schema <=> c.up
      BY <1>1, <2>1 DEF Orderly, Scripted
    <3>3. \A u : u # x => (u \in tracked' <=> u \in tracked)
      BY <1>2
    <3>4. x \in tracked' <=> x \in schema'
      BY <1>2, <3>2
    <3> QED
      BY <1>2, <2>1, <3>1, <3>3, <3>4 DEF Orderly, RowsAgree
  <2> QED
    BY <2>2, <2>3, <2>4, <2>5, <2>7, <2>8 DEF Orderly
<1> QED
  BY <1>6, <1>7, <1>8 DEF MigrationInv

LEMMA InspectionStep ==
  ASSUME MigrationInv,
         (\E release \in Releases : Migration!Status(release)) \/ Migration!Drift
           \/ Migration!EndInspection
  PROVE  MigrationInv'
<1>1. UNCHANGED <<schema, tracked, command, doubt, mixed>>
  BY DEF Migration!Status, Migration!Drift, Migration!EndInspection
<1>2. inspection' \in {Migration!NoInspection} \cup Inspecting /\ Inspected'
  <2>1. ASSUME NEW release \in Releases, Migration!Status(release)
        PROVE  inspection' \in {Migration!NoInspection} \cup Inspecting /\ Inspected'
    <3>1. /\ inspection' \in Inspecting /\ inspection'.release = release
          /\ inspection'.pc = "drift"
          /\ inspection'.clean => 1..release \subseteq tracked
      BY <2>1 DEF Migration!Status, Inspecting, Migration!Pending, Migration!Embedded
    <3> QED
      BY <1>1, <3>1 DEF Inspected
  <2>2. ASSUME Migration!Drift
        PROVE  inspection' \in {Migration!NoInspection} \cup Inspecting /\ Inspected'
    <3>1. inspection \in Inspecting /\ inspection # Migration!NoInspection
      BY <2>2 DEF Migration!Drift, MigrationInv, MigrationShape
    <3>2. /\ inspection' \in Inspecting /\ inspection'.release = inspection.release
          /\ inspection'.alone = inspection.alone
          /\ inspection'.clean <=>
               inspection.clean /\ Watched \cap (1..inspection.release) \subseteq schema
      BY <2>2, <3>1 DEF Migration!Drift, Inspecting, Migration!Embedded
    <3> QED
      BY <1>1, <3>1, <3>2 DEF MigrationInv, Inspected
  <2>3. ASSUME Migration!EndInspection
        PROVE  inspection' \in {Migration!NoInspection} \cup Inspecting /\ Inspected'
    BY <2>3 DEF Migration!EndInspection, Inspected
  <2> QED
    BY <2>1, <2>2, <2>3
<1>3. MigrationShape'
  BY <1>1, <1>2 DEF MigrationInv, MigrationShape
<1>4. Orderly' <=> Orderly
  BY <1>1 DEF Orderly, OneWay, Segment, UpsFollow, DownsLead, Scripted, RowsAgree, Between
<1> QED
  BY <1>1, <1>2, <1>3, <1>4 DEF MigrationInv

LEMMA MigrationStep ==
  ASSUME MigrationInv, Migration!MigrationsNext
  PROVE  MigrationInv'
<1>1. ASSUME NEW r \in Runners, NEW release \in Releases,
             Migration!Up(r, release) \/ \E n \in Migration!Versions : Migration!Down(r, release, n)
      PROVE  MigrationInv'
  BY <1>1, PlansMade
<1>2. ASSUME NEW r \in Runners, Migration!ScriptFails(r) PROVE MigrationInv'
  <2>1. ~Recording(command[r])
    BY <1>2 DEF Migration!ScriptFails, Recording
  <2> QED
    BY <1>2, <2>1, QuitStep DEF Migration!ScriptFails
<1>3. ASSUME NEW r \in Runners, Migration!RecordConflicts(r) PROVE MigrationInv'
  <2>1. /\ Migration!Current(r) = First(command[r]) /\ Recording(command[r])
        /\ First(command[r]) \in tracked /\ command[r].up
    BY <1>3, RunnerMoves DEF MigrationInv, Migration!RecordConflicts, Recording
  <2>2. ~mixed => (First(command[r]) \in tracked <=> First(command[r]) \in schema)
    BY <2>1 DEF MigrationInv, Orderly, Scripted
  <2> QED
    BY <1>3, <2>2, QuitStep DEF Migration!RecordConflicts
<1> QED
  BY <1>1, <1>2, <1>3, ExecStep, RecordStep, LostStep, InspectionStep DEF Migration!MigrationsNext

LEMMA MigrationAlways == Spec => []MigrationInv
<1>1. Init => MigrationInv
  <2> SUFFICES ASSUME Migration!MigrationsInit PROVE MigrationInv
    BY DEF Init
  <2>1. MigrationShape
    BY FS_EmptySet DEF Migration!MigrationsInit, MigrationShape
  <2>2. \A r \in Runners : ~Moving(command[r]) /\ ~Recording(command[r])
    BY DEF Migration!MigrationsInit, Moving, Recording
  <2>3. Orderly
    BY <2>2 DEF Migration!MigrationsInit, Orderly, OneWay, Segment, UpsFollow, DownsLead,
                Scripted, RowsAgree
  <2>4. Inspected
    BY DEF Migration!MigrationsInit, Inspected
  <2> QED
    BY <2>1, <2>3, <2>4 DEF MigrationInv
<1>2. MigrationInv /\ [Next]_vars => MigrationInv'
  <2> SUFFICES ASSUME MigrationInv, [Next]_vars PROVE MigrationInv'
    OBVIOUS
  <2>1. CASE UNCHANGED migrationVars
    BY <2>1 DEF migrationVars, MigrationInv, MigrationShape, Inspected, Orderly, OneWay, Segment,
                UpsFollow, DownsLead, Scripted, RowsAgree, Between
  <2> QED
    BY <2>1, PartStep, MigrationStep
<1> QED
  BY <1>1, <1>2, PTL DEF Spec

\* As long as no up ran beside a down, the rows are an initial segment, a row and the
\* objects of its version are there together unless a command is or ended between its
\* two statements, and a doctor who finds nothing is wrong only about a version in
\* doubt that it does not watch; for any releases and any number of commands (Up,
\* Down, RollbackPlan, BuildStatus, checkMigrationReadiness).
THEOREM TrackingHolds == Spec => []TrackingTrue
<1>1. MigrationInv => TrackingTrue
  <2> SUFFICES ASSUME MigrationInv, ~mixed
               PROVE  TrackingTrue
    BY DEF TrackingTrue, Migration!TrackingTrue
  <2> DEFINE between == {Migration!Current(r) :
                           r \in {q \in Runners : Migration!Busy(q) /\ command[q].pc = "record"}}
             known == Migration!Versions \ (doubt \cup between)
  <2>1. MigrationShape /\ Orderly /\ Inspected
    BY DEF MigrationInv
  <2>2. between = Between
    <3>1. \A q \in Runners : /\ Migration!Busy(q) /\ command[q].pc = "record" <=> Recording(command[q])
                             /\ Recording(command[q]) => Migration!Current(q) = First(command[q])
      BY <2>1, RunnerMoves DEF Recording
    <3> QED
      BY <3>1 DEF Between
  <2> HIDE DEF between
  <2>3. \A v \in tracked : 1..v \subseteq tracked
    BY <2>1 DEF Orderly, Segment
  <2>4. tracked \cap known = schema \cap known
    BY <2>1, <2>2 DEF Orderly, RowsAgree
  <2>5. ASSUME inspection # Migration!NoInspection, inspection.pc = "done", inspection.clean,
               inspection.alone
        PROVE  1..inspection.release \subseteq schema \cup (doubt \ Watched) \cup between
    <3>1. /\ 1..inspection.release \subseteq tracked
          /\ Watched \cap (1..inspection.release) \subseteq schema
      BY <2>1, <2>5 DEF Inspected
    <3>2. \A v \in tracked : v \in schema \cup doubt \cup between
      BY <2>1, <2>2 DEF Orderly, RowsAgree
    <3> QED
      BY <3>1, <3>2
  <2> QED
    BY <2>3, <2>4, <2>5 DEF TrackingTrue, Migration!TrackingTrue, Migration!Embedded, between
<1> QED
  BY <1>1, MigrationAlways, PTL
-----------------------------------------------------------------------------
(***************************************************************************)
(* OpsChecks                                                               *)
(***************************************************************************)
ExamPC ==
  {"count", "list", "objects", "size", "compare", "orphans", "ping", "storage", "put", "stat",
   "read", "remove", "report"}
Sums == Nat \cup {Cardinality(S) : S \in SUBSET Ops!Items}
Exams ==
  [pc : ExamPC, op : Ops!Ops, limit : Limits \cup Sums, kind : {1, 2}, total : Sums,
   todo : SUBSET Ops!Items, listed : SUBSET Ops!Items, truncated : BOOLEAN, few : BOOLEAN,
   found : SUBSET {"issue", "orphan", "failed"}, status : Ops!Statuses, crowded : BOOLEAN,
   moves : Nat]

OpsShape ==
  /\ rows \in SUBSET Ops!Items /\ IsFiniteSet(rows)
  /\ probe \in BOOLEAN
  /\ manifest \in [taken : BOOLEAN, objects : SUBSET Ops!Items, truncated : BOOLEAN]
  /\ exam \in {Ops!Quiet} \cup Exams

Table(n) == IF n = 1 THEN Bundles ELSE Snapshots

Wrong(kind, S) == \E i \in S : <<kind, i>> \in faults

Restoring(e) == e.op \in {"baseline", "verify"}

\* The tables are still being read.
ReadingTables(e) ==
  e.pc \in {"count", "list", "objects"} \/ (e.pc = "size" /\ e.op # "verify")

\* The tables that have been read.
TablesRead(e) == IF ReadingTables(e) THEN {n \in {1, 2} : n < e.kind} ELSE {1, 2}

\* Where each of the checks can be.
Placed(e) ==
  /\ e.pc \in {"count", "list", "size"} => e.op # "dependency"
  /\ e.pc = "objects" => e.op = "consistency"
  /\ e.pc = "compare" => e.op = "verify"
  /\ e.pc = "orphans" => Restoring(e)
  /\ e.pc = "ping" => e.op # "consistency"
  /\ e.pc \in {"storage", "put", "stat", "read", "remove"} => e.op = "dependency"
  /\ e.pc = "compare" \/ (e.pc = "size" /\ e.op = "verify") => e.kind = 1 /\ e.total = 0
  /\ e.pc = "orphans" /\ e.found = {} => e.total = 0

\* The count has no fewer rows than the table, unless one came in.
TableCounted(e) ==
  e.pc = "list" /\ ~e.crowded =>
    e.total \in Nat /\ Cardinality(rows \cap Table(e.kind)) <= e.total

\* A status of ok speaks of whole tables.
Whole(e) ==
  /\ Restoring(e) /\ ~ReadingTables(e) /\ e.status = "ok" => ~e.truncated
  /\ e.op = "consistency" /\ e.pc = "report" /\ e.status = "ok" => e.found = {}

\* What has been missing all the time has not been listed, and no more has what has
\* been there all the time against the manifest.
Unlisted(e) ==
  /\ e.op = "baseline" => \A i \in e.listed : <<"orphan", i>> \notin faults
  /\ e.op = "verify" => \A i \in e.listed \cap manifest.objects : <<"row", i>> \notin faults

ObjectsSeen(e) ==
  /\ e.op \in {"consistency", "baseline"} =>
       /\ \A n \in TablesRead(e) : ~Wrong("object", Table(n))
       /\ e.pc \in {"objects", "size"} /\ ~e.truncated =>
            ~Wrong("object", Table(e.kind) \ e.todo)
  /\ e.op = "verify" /\ e.pc = "size" => ~Wrong("object", Ops!Items \ e.todo)
  /\ e.op = "verify" /\ e.pc \in {"orphans", "ping", "report"} => ~Wrong("object", Ops!Items)

OrphansSeen(e) ==
  Restoring(e) =>
    /\ e.pc = "orphans" /\ e.kind = 2 => ~Wrong("orphan", Bundles)
    /\ e.pc \in {"ping", "report"} => ~Wrong("orphan", Ops!Items)

RowsSeen(e) ==
  e.op = "verify" =>
    /\ ~e.truncated =>
         \A n \in TablesRead(e) : ~Wrong("row", Table(n) \ (manifest.objects \cup e.listed))
    /\ e.pc \in {"size", "orphans", "ping", "report"} => ~Wrong("row", Ops!Items)

\* A check that has nothing to report so far.
Clear(e) == e.status = "ok" /\ ~e.crowded /\ e.found = {}

Examined(e) ==
  /\ faults \subseteq Ops!FaultsFor(e.op)
  /\ Placed(e) /\ TableCounted(e) /\ Whole(e) /\ Unlisted(e)
  /\ Clear(e) => ObjectsSeen(e) /\ OrphansSeen(e) /\ RowsSeen(e)

Probed ==
  probe => exam # Ops!Quiet /\ (exam.pc \in {"stat", "read", "remove"} \/ exam.status # "ok")

OpsInv ==
  OpsShape /\ (exam # Ops!Quiet => Examined(exam)) /\ Probed /\ Ops!OkIsTrue

LEMMA SameOpsCardinality ==
  ASSUME NEW S
  PROVE  Ops!Cardinality(S) = Cardinality(S)
BY DEF Ops!Cardinality, Cardinality

LEMMA TableOf ==
  /\ \A n \in {1, 2} : Ops!OfKind(Ops!Kinds[n]) = Table(n)
  /\ \A n \in {1, 2} : Table(n) \subseteq Ops!Items
  /\ \A i \in Ops!Items : \E n \in {1, 2} : i \in Table(n)
BY DEF Ops!OfKind, Ops!Kinds, Table, Ops!Items

\* What a fault of each kind says of the moment.
LEMMA FaultIs ==
  ASSUME OpsShape, NEW op \in Ops!Ops, NEW f \in Ops!FaultsFor(op)
  PROVE  /\ op # "dependency"
         /\ \E kind \in {"object", "orphan", "row"}, i \in Ops!Items : f = <<kind, i>>
         /\ \A i : f = <<"object", i>> =>
              blob[i] # "right" /\ i \in IF op = "verify" THEN manifest.objects ELSE rows
         /\ \A i : f = <<"orphan", i>> =>
              /\ op \in {"baseline", "verify"} /\ blob[i] # "none"
              /\ i \notin IF op = "verify" THEN manifest.objects ELSE rows
              /\ op = "verify" => ~manifest.truncated
         /\ \A i : f = <<"row", i>> =>
              op = "verify" /\ (i \in rows <=> i \notin manifest.objects)
<1> DEFINE expected == IF op = "verify" THEN manifest.objects ELSE rows
<1>1. expected \subseteq Ops!Items
  BY DEF OpsShape
<1>2. op # "dependency"
  BY DEF Ops!FaultsFor
<1>3. \/ \E i \in expected : f = <<"object", i>> /\ blob[i] # "right"
      \/ /\ op # "consistency"
         /\ \E i \in Ops!Items \ expected :
              f = <<"orphan", i>> /\ blob[i] # "none" /\ ~(op = "verify" /\ manifest.truncated)
      \/ /\ op # "consistency"
         /\ \E i \in Ops!Items : f = <<"row", i>> /\ (i \in rows) # (i \in expected)
  BY <1>2 DEF Ops!FaultsFor
<1>4. op \in {"consistency", "baseline", "verify"}
  BY <1>2 DEF Ops!Ops
<1>5. CASE \E i \in expected : f = <<"object", i>> /\ blob[i] # "right"
  BY <1>1, <1>2, <1>5
<1>6. CASE /\ op # "consistency"
           /\ \E i \in Ops!Items \ expected :
                f = <<"orphan", i>> /\ blob[i] # "none" /\ ~(op = "verify" /\ manifest.truncated)
  BY <1>2, <1>4, <1>6
<1>7. CASE /\ op # "consistency"
           /\ \E i \in Ops!Items : f = <<"row", i>> /\ (i \in rows) # (i \in expected)
  BY <1>2, <1>4, <1>7
<1> QED
  BY <1>3, <1>5, <1>6, <1>7

LEMMA WorseIs ==
  ASSUME NEW a \in Ops!Statuses, NEW b \in Ops!Statuses
  PROVE  Ops!Worse(a, b) \in Ops!Statuses /\ (Ops!Worse(a, b) = "ok" <=> a = "ok" /\ b = "ok")
BY DEF Ops!Worse, Ops!Rank, Ops!Statuses

LEMMA AfterKindIs ==
  ASSUME NEW e \in Exams, e.op # "dependency"
  PROVE  LET o == Ops!AfterKind(e)
         IN  /\ o \in Exams
             /\ o.op = e.op /\ o.status = e.status /\ o.crowded = e.crowded
             /\ o.listed = e.listed /\ o.total = 0
             /\ e.kind = 1 => /\ o.kind = 2 /\ o.pc = "count"
                              /\ e.op # "consistency" => o.truncated = e.truncated
                              /\ e.op # "consistency" => o.found = e.found
             /\ e.kind = 2 => /\ o.kind = 1 /\ o.found = e.found /\ o.truncated = e.truncated
                              /\ e.op = "consistency" => o.pc = "report"
                              /\ e.op = "baseline" => o.pc = "orphans"
                              /\ e.op = "verify" => o.pc = "compare"
<1> DEFINE o == Ops!AfterKind(e)
<1>1. e.op \in {"consistency", "baseline", "verify"} /\ e.kind \in {1, 2}
  BY DEF Exams, Ops!Ops
<1>2. CASE e.kind = 1
  <2>1. o = [e EXCEPT !.kind = 2, !.pc = "count", !.few = FALSE, !.total = 0,
                      !.truncated = @ /\ e.op # "consistency",
                      !.found = IF e.op = "consistency" THEN {} ELSE @]
    BY <1>2 DEF Ops!AfterKind
  <2>2. /\ o.op = e.op /\ o.status = e.status /\ o.crowded = e.crowded
        /\ o.listed = e.listed /\ o.total = 0 /\ o.kind = 2 /\ o.pc = "count"
        /\ o.truncated = (e.truncated /\ e.op # "consistency")
        /\ o.found = IF e.op = "consistency" THEN {} ELSE e.found
    BY <2>1 DEF Exams
  <2>3. o \in Exams
    <3>1. /\ 0 \in Sums /\ "count" \in ExamPC /\ (e.truncated /\ e.op # "consistency") \in BOOLEAN
          /\ (IF e.op = "consistency" THEN {} ELSE e.found) \in SUBSET {"issue", "orphan", "failed"}
      BY DEF Sums, ExamPC, Exams
    <3> QED
      BY <2>1, <3>1 DEF Exams
  <2> HIDE DEF o
  <2>4. e.op # "consistency" => o.truncated = e.truncated
    BY <2>2 DEF Exams
  <2> QED
    BY <1>2, <2>2, <2>3, <2>4 DEF o
<1>3. CASE e.kind = 2
  <2> DEFINE pc == CASE e.op = "consistency" -> "report"
                     [] e.op = "baseline" -> "orphans"
                     [] e.op = "verify" -> "compare"
  <2>1. o = [e EXCEPT !.kind = 1, !.few = FALSE, !.total = 0, !.pc = pc]
    BY <1>3 DEF Ops!AfterKind
  <2>2. /\ pc \in ExamPC
        /\ e.op = "consistency" => pc = "report"
        /\ e.op = "baseline" => pc = "orphans"
        /\ e.op = "verify" => pc = "compare"
    BY <1>1 DEF ExamPC
  <2> HIDE DEF pc
  <2>3. /\ o.op = e.op /\ o.status = e.status /\ o.crowded = e.crowded
        /\ o.listed = e.listed /\ o.total = 0 /\ o.kind = 1 /\ o.pc = pc
        /\ o.truncated = e.truncated /\ o.found = e.found
    BY <2>1 DEF Exams
  <2>4. o \in Exams
    <3>1. 0 \in Sums
      BY DEF Sums
    <3> QED
      BY <2>1, <2>2, <3>1 DEF Exams
  <2> HIDE DEF o
  <2> QED
    BY <1>3, <2>2, <2>3, <2>4 DEF o
<1> QED
  BY <1>1, <1>2, <1>3

\* A table has been read, and what was wrong with it has been seen.
LEMMA Closes ==
  ASSUME NEW e \in Exams, e.op # "dependency",
         faults \subseteq Ops!FaultsFor(e.op), Unlisted(e),
         e.status = "ok" => ~e.truncated /\ (e.op = "consistency" => e.found = {}),
         Clear(e) /\ e.op # "verify" =>
           \A n \in {1, 2} : n <= e.kind => ~Wrong("object", Table(n)),
         Clear(e) /\ e.op = "verify" =>
           \A n \in {1, 2} : n <= e.kind =>
             ~Wrong("row", Table(n) \ (manifest.objects \cup e.listed))
  PROVE  Ops!AfterKind(e) \in Exams /\ Examined(Ops!AfterKind(e))
<1> DEFINE o == Ops!AfterKind(e)
<1>1. /\ o \in Exams
      /\ o.op = e.op /\ o.status = e.status /\ o.crowded = e.crowded
      /\ o.listed = e.listed /\ o.total = 0
      /\ e.kind = 1 => /\ o.kind = 2 /\ o.pc = "count"
                       /\ e.op # "consistency" => o.truncated = e.truncated
                       /\ e.op # "consistency" => o.found = e.found
      /\ e.kind = 2 => /\ o.kind = 1 /\ o.found = e.found /\ o.truncated = e.truncated
                       /\ e.op = "consistency" => o.pc = "report"
                       /\ e.op = "baseline" => o.pc = "orphans"
                       /\ e.op = "verify" => o.pc = "compare"
  BY AfterKindIs
<1>2. e.op \in {"consistency", "baseline", "verify"} /\ e.kind \in {1, 2}
  BY DEF Exams, Ops!Ops
<1> HIDE DEF o
<1>3. Clear(o) => Clear(e)
  BY <1>1, <1>2 DEF Clear
<1>4. Placed(o) /\ TableCounted(o) /\ Unlisted(o)
  BY <1>1, <1>2 DEF Placed, TableCounted, Unlisted, Restoring
<1>5. Whole(o)
  BY <1>1, <1>2 DEF Whole, Restoring, ReadingTables
<1>6. \A n \in TablesRead(o) : n \in {1, 2} /\ n <= e.kind
  BY <1>1, <1>2 DEF TablesRead, ReadingTables
<1>7. o.pc \in {"count", "report", "orphans", "compare"}
      /\ (o.pc = "orphans" => o.kind = 1) /\ (o.pc = "report" => o.op = "consistency")
      /\ (o.op = "verify" => o.pc \in {"count", "compare"})
  BY <1>1, <1>2
<1>8. Clear(o) => ObjectsSeen(o)
  BY <1>1, <1>3, <1>6, <1>7 DEF ObjectsSeen
<1>9. Clear(o) => OrphansSeen(o) /\ RowsSeen(o)
  BY <1>1, <1>3, <1>6, <1>7 DEF OrphansSeen, RowsSeen, Restoring
<1> QED
  BY <1>1, <1>4, <1>5, <1>8, <1>9 DEF Examined, o

\* A step of the check that changes the check alone.
LEMMA ToStep ==
  ASSUME OpsInv, exam # Ops!Quiet, exam.pc \notin {"stat", "read", "remove"},
         NEW o \in Exams, Examined(o), exam.status # "ok" => o.status # "ok",
         Ops!To(o)
  PROVE  OpsInv'
<1>1. exam' = o /\ UNCHANGED <<rows, later, pending, blob, manifest, faults, report, probe>>
  BY DEF Ops!To, Ops!untouched
<1>2. OpsShape'
  BY <1>1 DEF OpsInv, OpsShape
<1>3. Ops!FaultsFor(exam.op)' = Ops!FaultsFor(o.op)
  BY <1>1 DEF Ops!FaultsFor
<1>4. \A k, S : Wrong(k, S)' <=> Wrong(k, S)
  BY <1>1 DEF Wrong
<1>5. (Placed(exam) /\ TableCounted(exam) /\ Whole(exam) /\ Unlisted(exam))'
  BY <1>1 DEF Examined, Placed, TableCounted, Whole, Unlisted, Restoring, ReadingTables
<1>6. Clear(exam)' => (ObjectsSeen(exam) /\ OrphansSeen(exam) /\ RowsSeen(exam))'
  BY <1>1 DEF Examined, Clear, ObjectsSeen, OrphansSeen, RowsSeen, Restoring, TablesRead,
              ReadingTables, Wrong
<1>7. Examined(exam)'
  BY <1>1, <1>3, <1>5, <1>6 DEF Examined
<1>8. Probed' /\ Ops!OkIsTrue'
  BY <1>1 DEF OpsInv, Probed, Ops!OkIsTrue, Exams, Ops!Quiet
<1> QED
  BY <1>2, <1>7, <1>8 DEF OpsInv

LEMMA KindFailsIs ==
  ASSUME NEW e \in Exams, e.op # "dependency", Examined(e)
  PROVE  /\ Ops!KindFails(e) \in Exams /\ Examined(Ops!KindFails(e))
         /\ Ops!KindFails(e).status = "unhealthy"
<1> DEFINE o == [e EXCEPT !.status = "unhealthy", !.todo = {}]
<1>1. /\ o \in Exams /\ o.op = e.op /\ o.status = "unhealthy" /\ o.listed = e.listed
  BY DEF Exams, Ops!Statuses
<1>2. Ops!KindFails(e) = Ops!AfterKind(o)
  BY DEF Ops!KindFails
<1> HIDE DEF o
<1>3. faults \subseteq Ops!FaultsFor(o.op) /\ Unlisted(o) /\ ~Clear(o)
  BY <1>1 DEF Examined, Unlisted, Clear
<1>4. Ops!AfterKind(o).status = "unhealthy"
  BY <1>1, AfterKindIs
<1> QED
  BY <1>1, <1>2, <1>3, <1>4, Closes

LEMMA CloseKindIs ==
  ASSUME NEW e \in Exams, e.op # "dependency",
         faults \subseteq Ops!FaultsFor(e.op), Unlisted(e),
         Clear(e) /\ ~e.truncated /\ e.op # "verify" =>
           \A n \in {1, 2} : n <= e.kind => ~Wrong("object", Table(n)),
         Clear(e) /\ ~e.truncated /\ e.op = "verify" =>
           \A n \in {1, 2} : n <= e.kind =>
             ~Wrong("row", Table(n) \ (manifest.objects \cup e.listed))
  PROVE  /\ Ops!CloseKind(e) \in Exams /\ Examined(Ops!CloseKind(e))
         /\ e.status # "ok" => Ops!CloseKind(e).status # "ok"
<1> DEFINE closing == IF e.op = "consistency" THEN Ops!FinalizeArtifact(e.found, e.truncated, e.few)
                    ELSE IF e.truncated THEN "degraded" ELSE "ok"
           o == [e EXCEPT !.status = Ops!Worse(@, closing)]
<1>1. /\ closing \in Ops!Statuses
      /\ closing = "ok" => ~e.truncated /\ (e.op = "consistency" => e.found = {})
  BY DEF Ops!FinalizeArtifact, Ops!Statuses
<1>2. Ops!CloseKind(e) = Ops!AfterKind(o)
  BY DEF Ops!CloseKind
<1> HIDE DEF closing
<1>3. e.status \in Ops!Statuses
  BY DEF Exams
<1>4. /\ Ops!Worse(e.status, closing) \in Ops!Statuses
      /\ Ops!Worse(e.status, closing) = "ok" <=> e.status = "ok" /\ closing = "ok"
  BY <1>1, <1>3, WorseIs
<1>5. /\ o \in Exams /\ o.op = e.op /\ o.status = Ops!Worse(e.status, closing)
      /\ o.listed = e.listed /\ o.found = e.found /\ o.truncated = e.truncated
      /\ o.crowded = e.crowded /\ o.kind = e.kind
  BY <1>4 DEF Exams
<1> HIDE DEF o
<1>6. faults \subseteq Ops!FaultsFor(o.op) /\ Unlisted(o)
  BY <1>5 DEF Unlisted
<1>7. o.status = "ok" => ~o.truncated /\ (o.op = "consistency" => o.found = {})
  BY <1>1, <1>4, <1>5
<1>8. Clear(o) => Clear(e) /\ ~e.truncated
  BY <1>1, <1>4, <1>5 DEF Clear
<1>9. /\ Ops!AfterKind(o) \in Exams /\ Examined(Ops!AfterKind(o))
  BY <1>5, <1>6, <1>7, <1>8, Closes
<1>10. Ops!AfterKind(o).status = o.status
  BY <1>5, AfterKindIs
<1> QED
  BY <1>2, <1>4, <1>5, <1>9, <1>10

LEMMA CountStep ==
  ASSUME OpsInv, Ops!CountAll
  PROVE  OpsInv'
<1>1. /\ exam # Ops!Quiet /\ exam.pc = "count" /\ exam \in Exams /\ Examined(exam)
      /\ rows \in SUBSET Ops!Items /\ IsFiniteSet(rows)
  BY DEF OpsInv, OpsShape, Ops!CountAll, Ops!During
<1>2. exam.op # "dependency" /\ exam.kind \in {1, 2}
  BY <1>1 DEF Examined, Placed, Exams
<1> DEFINE n == Cardinality(rows \cap Table(exam.kind))
           o == [exam EXCEPT !.pc = "list", !.total = n]
<1>3. Ops!To(o) \/ Ops!To(Ops!KindFails(exam))
  BY <1>2, TableOf, SameOpsCardinality DEF Ops!CountAll, Ops!Live, Ops!Kind
<1>4. CASE Ops!To(Ops!KindFails(exam))
  BY <1>1, <1>2, <1>4, KindFailsIs, ToStep
<1>5. CASE Ops!To(o)
  <2>1. n \in Nat
    BY <1>1, FS_Subset, FS_CardinalityType
  <2>2. n \in Sums
    BY <2>1 DEF Sums
  <2>3. /\ o \in Exams /\ o.pc = "list" /\ o.total = n /\ o.kind = exam.kind /\ o.op = exam.op
        /\ o.status = exam.status /\ o.crowded = exam.crowded /\ o.found = exam.found
        /\ o.truncated = exam.truncated /\ o.listed = exam.listed
    BY <1>1, <2>2 DEF Exams, ExamPC
  <2> HIDE DEF o
  <2>4. TableCounted(o)
    BY <2>1, <2>3 DEF TableCounted
  <2> HIDE DEF n
  <2>5. Placed(o) /\ Whole(o) /\ Unlisted(o)
    BY <1>1, <1>2, <2>3 DEF Examined, Placed, Whole, Unlisted, Restoring, ReadingTables
  <2>6. Clear(o) => ObjectsSeen(o) /\ OrphansSeen(o) /\ RowsSeen(o)
    BY <1>1, <2>3 DEF Examined, Clear, ObjectsSeen, OrphansSeen, RowsSeen, Restoring,
                      TablesRead, ReadingTables
  <2>7. Examined(o)
    BY <1>1, <2>3, <2>4, <2>5, <2>6 DEF Examined
  <2> QED
    BY <1>1, <1>5, <2>3, <2>7, ToStep
<1> QED
  BY <1>3, <1>4, <1>5

\* A sample no smaller than the count is the table, unless a row came in between.
LEMMA SampleIs ==
  ASSUME OpsInv, exam # Ops!Quiet, exam.pc = "list"
  PROVE  /\ Ops!Sample \subseteq rows \cap Table(exam.kind)
         /\ ~exam.crowded /\ ~(exam.total > Ops!Cardinality(Ops!Sample)) =>
              Ops!Sample = rows \cap Table(exam.kind)
<1> DEFINE live == rows \cap Table(exam.kind)
<1>1. exam \in Exams /\ TableCounted(exam) /\ rows \in SUBSET Ops!Items /\ IsFiniteSet(rows)
  BY DEF OpsInv, OpsShape, Examined
<1>2. Ops!Live = live
  BY <1>1, TableOf DEF Ops!Live, Ops!Kind, Exams
<1>3. Ops!Sample \in SUBSET live
  BY <1>2 DEF Ops!Sample
<1>4. IsFiniteSet(live)
  BY <1>1, FS_Subset
<1> HIDE DEF live
<1>5. /\ IsFiniteSet(Ops!Sample) /\ Cardinality(Ops!Sample) \in Nat /\ Cardinality(live) \in Nat
      /\ Cardinality(Ops!Sample) = Cardinality(live) => Ops!Sample = live
      /\ Cardinality(Ops!Sample) <= Cardinality(live)
  BY <1>3, <1>4, FS_Subset, FS_CardinalityType
<1>6. ~exam.crowded => exam.total \in Nat /\ Cardinality(live) <= exam.total
  BY <1>1 DEF TableCounted, live
<1>7. ASSUME ~exam.crowded, ~(exam.total > Ops!Cardinality(Ops!Sample))
      PROVE  Ops!Sample = live
  <2>1. ~(exam.total > Cardinality(Ops!Sample))
    BY <1>7, SameOpsCardinality
  <2> QED
    BY <1>5, <1>6, <1>7, <2>1
<1> QED
  BY <1>3, <1>7 DEF live

LEMMA ListStep ==
  ASSUME OpsInv, Ops!ListForOps
  PROVE  OpsInv'
<1>1. /\ exam # Ops!Quiet /\ exam.pc = "list" /\ exam \in Exams /\ Examined(exam) /\ OpsShape
  BY DEF OpsInv, OpsShape, Ops!ListForOps, Ops!During
<1>2. /\ exam.op # "dependency" /\ exam.kind \in {1, 2} /\ exam.op \in Ops!Ops
      /\ exam.op \in {"consistency", "baseline", "verify"}
  BY <1>1 DEF Examined, Placed, Exams, Ops!Ops
<1> DEFINE S == Ops!Sample
           t == exam.truncated \/ exam.total > Ops!Cardinality(S)
           e == [exam EXCEPT !.truncated = @ \/ exam.total > Ops!Cardinality(Ops!Sample),
                             !.listed = @ \cup S,
                             !.todo = IF exam.op = "verify" THEN {} ELSE S]
           o(pc) == [e EXCEPT !.pc = pc]
<1>3. \/ exam.op = "consistency" /\ Ops!To(o("objects"))
      \/ exam.op = "baseline" /\ Ops!To(o("size"))
      \/ exam.op = "verify" /\ Ops!To(Ops!CloseKind(e))
      \/ Ops!To(Ops!KindFails(exam))
  BY <1>2 DEF Ops!ListForOps
<1>4. /\ S \subseteq rows \cap Table(exam.kind)
      /\ ~exam.crowded /\ ~t => S = rows \cap Table(exam.kind)
  BY <1>1, SampleIs
<1>5. S \in SUBSET Ops!Items
  BY <1>1, <1>4 DEF OpsShape
<1>6. /\ e \in Exams /\ e.op = exam.op /\ e.kind = exam.kind /\ e.pc = exam.pc
      /\ e.status = exam.status /\ e.crowded = exam.crowded /\ e.found = exam.found
      /\ e.truncated <=> t
      /\ e.listed = exam.listed \cup S
      /\ e.todo = IF exam.op = "verify" THEN {} ELSE S
  <2>1. t \in BOOLEAN
    OBVIOUS
  <2> QED
    BY <1>1, <1>5, <2>1 DEF Exams
<1>7. \A pc \in ExamPC :
        /\ o(pc) \in Exams /\ o(pc).pc = pc /\ o(pc).op = e.op /\ o(pc).kind = e.kind
        /\ o(pc).status = e.status /\ o(pc).crowded = e.crowded /\ o(pc).found = e.found
        /\ o(pc).truncated = e.truncated /\ o(pc).listed = e.listed /\ o(pc).todo = e.todo
  <2> HIDE DEF e
  <2> QED
    BY <1>6 DEF Exams
<1>8. faults \subseteq Ops!FaultsFor(exam.op)
  BY <1>1 DEF Examined
<1> HIDE DEF S, e, o, t
<1>9. Unlisted(e)
  <2>1. ASSUME NEW i \in S, <<"orphan", i>> \in faults, exam.op = "baseline" PROVE FALSE
    BY <1>1, <1>2, <1>4, <1>8, <2>1, FaultIs
  <2>2. ASSUME NEW i \in S \cap manifest.objects, <<"row", i>> \in faults, exam.op = "verify"
        PROVE  FALSE
    BY <1>1, <1>2, <1>4, <1>8, <2>2, FaultIs
  <2>3. Unlisted(exam)
    BY <1>1 DEF Examined
  <2> QED
    BY <1>6, <2>1, <2>2, <2>3 DEF Unlisted
<1>10. Clear(e) /\ ~e.truncated => Clear(exam) /\ ~exam.truncated /\ S = rows \cap Table(exam.kind)
  BY <1>4, <1>6 DEF Clear, t
<1>11. ASSUME exam.op # "verify", Clear(exam), S = rows \cap Table(exam.kind)
       PROVE  ~Wrong("object", Table(exam.kind) \ S)
  BY <1>1, <1>2, <1>8, <1>11, FaultIs DEF Wrong
<1>12. CASE Ops!To(Ops!KindFails(exam))
  BY <1>1, <1>2, <1>12, KindFailsIs, ToStep
<1>13. ASSUME NEW pc \in {"objects", "size"}, Ops!To(o(pc)), exam.op # "verify",
              pc = "objects" => exam.op = "consistency", pc = "size" => exam.op = "baseline"
       PROVE  OpsInv'
  <2> DEFINE q == o(pc)
  <2>1. /\ q \in Exams /\ q.pc = pc /\ q.op = e.op /\ q.kind = e.kind
        /\ q.status = e.status /\ q.crowded = e.crowded /\ q.found = e.found
        /\ q.truncated = e.truncated /\ q.listed = e.listed /\ q.todo = e.todo
    BY <1>7, <1>13 DEF ExamPC
  <2>2. Ops!To(q)
    BY <1>13
  <2> HIDE DEF q
  <2>3. Placed(q) /\ TableCounted(q) /\ Unlisted(q) /\ Whole(q)
    BY <1>2, <1>6, <1>9, <1>13, <2>1 DEF Placed, TableCounted, Unlisted, Whole, Restoring, ReadingTables
  <2>4. Clear(q) => Clear(exam)
    BY <1>6, <2>1 DEF Clear
  <2>5. TablesRead(q) = TablesRead(exam)
    BY <1>1, <1>6, <1>13, <2>1 DEF TablesRead, ReadingTables
  <2>6. Clear(q) /\ ~q.truncated => ~Wrong("object", Table(q.kind) \ q.todo)
    BY <1>6, <1>10, <1>11, <1>13, <2>1, <2>4 DEF Clear
  <2>7. Clear(q) => ObjectsSeen(q)
    BY <1>1, <1>6, <1>13, <2>1, <2>4, <2>5, <2>6 DEF Examined, ObjectsSeen
  <2>8. Clear(q) => OrphansSeen(q) /\ RowsSeen(q)
    BY <1>6, <1>13, <2>1 DEF OrphansSeen, RowsSeen
  <2>9. Examined(q)
    BY <1>6, <1>8, <2>1, <2>3, <2>7, <2>8 DEF Examined
  <2> QED
    BY <1>1, <1>6, <2>1, <2>2, <2>9, ToStep
<1>14. ASSUME exam.op = "verify", Ops!To(Ops!CloseKind(e))
       PROVE  OpsInv'
  <2>1. ASSUME Clear(e), ~e.truncated, NEW n \in {1, 2}, n <= e.kind
        PROVE  ~Wrong("row", Table(n) \ (manifest.objects \cup e.listed))
    <3>1. Clear(exam) /\ ~exam.truncated /\ S = rows \cap Table(exam.kind)
      BY <1>10, <2>1
    <3>2. CASE n = exam.kind
      BY <1>1, <1>2, <1>6, <1>8, <1>14, <3>1, <3>2, FaultIs DEF Wrong
    <3>3. CASE n # exam.kind
      <4>1. n \in TablesRead(exam)
        BY <1>1, <1>2, <1>6, <2>1, <3>3 DEF TablesRead, ReadingTables
      <4>2. ~Wrong("row", Table(n) \ (manifest.objects \cup exam.listed))
        BY <1>1, <1>14, <3>1, <4>1 DEF Examined, RowsSeen
      <4> QED
        BY <1>6, <4>2 DEF Wrong
    <3> QED
      BY <3>2, <3>3
  <2>2. /\ Ops!CloseKind(e) \in Exams /\ Examined(Ops!CloseKind(e))
        /\ e.status # "ok" => Ops!CloseKind(e).status # "ok"
    BY <1>2, <1>6, <1>8, <1>9, <1>14, <2>1, CloseKindIs
  <2> QED
    BY <1>1, <1>6, <1>14, <2>2, ToStep
<1> QED
  BY <1>2, <1>3, <1>12, <1>13, <1>14

LEMMA ListObjectsStep ==
  ASSUME OpsInv, Ops!ListObjects
  PROVE  OpsInv'
<1>1. exam # Ops!Quiet /\ exam.pc = "objects" /\ exam \in Exams /\ Examined(exam)
  BY DEF OpsInv, OpsShape, Ops!ListObjects, Ops!During
<1>2. exam.op = "consistency"
  BY <1>1 DEF Examined, Placed
<1> DEFINE n == Ops!Cardinality({i \in Ops!OfKind(Ops!Kind) : blob[i] # "none"})
           full == exam.truncated \/ n >= DefaultLimit
           fewer == n < exam.total
           o == [exam EXCEPT !.pc = "size", !.truncated = full, !.few = fewer]
<1>3. Ops!To(o) \/ Ops!To(Ops!KindFails(exam))
  BY DEF Ops!ListObjects
<1>4. CASE Ops!To(Ops!KindFails(exam))
  BY <1>1, <1>2, <1>4, KindFailsIs, ToStep
<1>5. CASE Ops!To(o)
  <2>0. full \in BOOLEAN /\ fewer \in BOOLEAN /\ (exam.truncated => full)
    OBVIOUS
  <2> HIDE DEF n, full, fewer
  <2>1. /\ o \in Exams /\ o.pc = "size" /\ o.kind = exam.kind /\ o.op = exam.op
        /\ o.status = exam.status /\ o.crowded = exam.crowded /\ o.found = exam.found
        /\ exam.truncated => o.truncated
        /\ o.listed = exam.listed /\ o.todo = exam.todo
    BY <1>1, <2>0 DEF Exams, ExamPC
  <2> HIDE DEF o
  <2>2. Placed(o) /\ TableCounted(o) /\ Whole(o) /\ Unlisted(o)
    BY <1>1, <1>2, <2>1 DEF Examined, Placed, TableCounted, Whole, Unlisted, Restoring, ReadingTables
  <2>3. Clear(o) => ObjectsSeen(o) /\ OrphansSeen(o) /\ RowsSeen(o)
    BY <1>1, <1>2, <2>1 DEF Examined, Clear, ObjectsSeen, OrphansSeen, RowsSeen, Restoring,
                            TablesRead, ReadingTables
  <2>4. Examined(o)
    BY <1>1, <2>1, <2>2, <2>3 DEF Examined
  <2> QED
    BY <1>1, <1>5, <2>1, <2>4, ToStep
<1> QED
  BY <1>3, <1>4, <1>5

\* An object that is right at the moment has not been wrong all the time.
LEMMA CheckObjectStep ==
  ASSUME OpsInv, NEW i, Ops!CheckObject(i) \/ Ops!StopAtDeadline
  PROVE  OpsInv'
<1>1. exam # Ops!Quiet /\ exam.pc = "size" /\ exam \in Exams /\ Examined(exam) /\ OpsShape
  BY DEF OpsInv, OpsShape, Ops!CheckObject, Ops!StopAtDeadline, Ops!During
<1>2. exam.op \in Ops!Ops /\ exam.todo \in SUBSET Ops!Items
  BY <1>1 DEF Exams
<1> DEFINE q(todo, found) == [exam EXCEPT !.todo = todo, !.found = found]
<1>3. ASSUME NEW todo \in SUBSET Ops!Items, NEW found \in SUBSET {"issue", "orphan", "failed"},
             Ops!To(q(todo, found)), exam.found # {} => found # {},
             found = {} => \/ todo = exam.todo
                           \/ todo = exam.todo \ {i} /\ <<"object", i>> \notin faults
      PROVE  OpsInv'
  <2> DEFINE o == q(todo, found)
  <2>1. /\ o \in Exams /\ o.pc = "size" /\ o.kind = exam.kind /\ o.op = exam.op
        /\ o.status = exam.status /\ o.crowded = exam.crowded /\ o.found = found
        /\ o.truncated = exam.truncated /\ o.listed = exam.listed /\ o.todo = todo
        /\ o.total = exam.total
    BY <1>1, <1>3 DEF Exams
  <2>2. Ops!To(o)
    BY <1>3
  <2> HIDE DEF o, q
  <2>3. Placed(o) /\ TableCounted(o) /\ Whole(o) /\ Unlisted(o)
    BY <1>1, <2>1 DEF Examined, Placed, TableCounted, Whole, Unlisted, Restoring, ReadingTables
  <2>4. Clear(o) => Clear(exam) /\ found = {}
    BY <1>3, <2>1 DEF Clear
  <2>5. found = {} => \A S : ~Wrong("object", S \ exam.todo) => ~Wrong("object", S \ todo)
    BY <1>3 DEF Wrong
  <2>6. Clear(o) => ObjectsSeen(o)
    BY <1>1, <2>1, <2>4, <2>5 DEF Examined, ObjectsSeen, TablesRead, ReadingTables
  <2>7. Clear(o) => OrphansSeen(o) /\ RowsSeen(o)
    BY <1>1, <2>1, <2>4 DEF Examined, OrphansSeen, RowsSeen, Restoring, TablesRead, ReadingTables
  <2>8. Examined(o)
    BY <1>1, <2>1, <2>3, <2>6, <2>7 DEF Examined
  <2> QED
    BY <1>1, <2>1, <2>2, <2>8, ToStep
<1>4. exam.found \in SUBSET {"issue", "orphan", "failed"}
  BY <1>1 DEF Exams
<1>5. CASE Ops!CheckObject(i)
  <2> DEFINE todo == exam.todo \ {i}
             outcome == IF Ops!Differs(i) THEN exam.found \cup {"issue"} ELSE exam.found
  <2>1. Ops!To(q(todo, outcome)) \/ Ops!To(q(todo, exam.found \cup {"failed"}))
    <3>1. /\ [[exam EXCEPT !.todo = todo] EXCEPT !.found = outcome] = q(todo, outcome)
          /\ [[exam EXCEPT !.todo = todo] EXCEPT !.found = exam.found \cup {"failed"}]
               = q(todo, exam.found \cup {"failed"})
      BY <1>1 DEF Exams
    <3>2. /\ [exam EXCEPT !.todo = todo].found = exam.found
          /\ [exam EXCEPT !.todo = @ \ {i}] = [exam EXCEPT !.todo = todo]
      BY <1>1 DEF Exams
    <3>3. LET e == [exam EXCEPT !.todo = todo]
          IN  \/ Ops!To([e EXCEPT !.found = IF Ops!Differs(i) THEN e.found \cup {"issue"} ELSE e.found])
              \/ Ops!To([e EXCEPT !.found = e.found \cup {"failed"}])
      BY <1>5, <3>2 DEF Ops!CheckObject
    <3> QED
      BY <3>1, <3>2, <3>3
  <2>2. todo \in SUBSET Ops!Items
    BY <1>2
  <2>3. ~Ops!Differs(i) => <<"object", i>> \notin faults
    BY <1>1, <1>2, FaultIs DEF Examined, Ops!Differs
  <2>4. CASE Ops!To(q(todo, outcome))
    <3>1. outcome \in SUBSET {"issue", "orphan", "failed"}
      BY <1>4
    <3>2. (exam.found # {} => outcome # {}) /\ (outcome = {} => <<"object", i>> \notin faults)
      BY <2>3
    <3> HIDE DEF q, outcome
    <3> QED
      BY <1>3, <2>2, <2>4, <3>1, <3>2
  <2>5. CASE Ops!To(q(todo, exam.found \cup {"failed"}))
    <3> HIDE DEF q
    <3> QED
      BY <1>3, <1>4, <2>2, <2>5
  <2> QED
    BY <2>1, <2>4, <2>5
<1>6. CASE Ops!StopAtDeadline
  <2>1. Ops!To(q({}, exam.found \cup {"failed"}))
    BY <1>6 DEF Ops!StopAtDeadline
  <2> HIDE DEF q
  <2> QED
    BY <1>3, <1>4, <2>1
<1> QED
  BY <1>5, <1>6

LEMMA AllCheckedStep ==
  ASSUME OpsInv, Ops!AllChecked
  PROVE  OpsInv'
<1>1. /\ exam # Ops!Quiet /\ exam.pc = "size" /\ exam \in Exams /\ Examined(exam)
      /\ exam.todo = {}
  BY DEF OpsInv, OpsShape, Ops!AllChecked, Ops!During
<1>2. /\ exam.op # "dependency" /\ exam.kind \in {1, 2}
      /\ exam.op \in {"consistency", "baseline", "verify"}
  BY <1>1 DEF Examined, Placed, Exams, Ops!Ops
<1>3. CASE exam.op = "verify"
  <2> DEFINE o == [exam EXCEPT !.pc = "orphans"]
  <2>1. Ops!To(o)
    BY <1>3 DEF Ops!AllChecked
  <2>2. /\ o \in Exams /\ o.pc = "orphans" /\ o.kind = exam.kind /\ o.op = exam.op
        /\ o.status = exam.status /\ o.crowded = exam.crowded /\ o.found = exam.found
        /\ o.truncated = exam.truncated /\ o.listed = exam.listed /\ o.total = exam.total
    BY <1>1 DEF Exams, ExamPC
  <2> HIDE DEF o
  <2>3. Placed(o) /\ TableCounted(o) /\ Whole(o) /\ Unlisted(o) /\ o.kind = 1
    BY <1>1, <1>3, <2>2 DEF Examined, Placed, TableCounted, Whole, Unlisted, Restoring, ReadingTables
  <2>4. Clear(o) => ObjectsSeen(o) /\ OrphansSeen(o) /\ RowsSeen(o)
    BY <1>1, <1>3, <2>2, <2>3 DEF Examined, Clear, ObjectsSeen, OrphansSeen, RowsSeen, Wrong,
                                  TablesRead, ReadingTables
  <2>5. Examined(o)
    BY <1>1, <2>2, <2>3, <2>4 DEF Examined
  <2> QED
    BY <1>1, <2>1, <2>2, <2>5, ToStep
<1>4. CASE exam.op # "verify"
  <2>1. Ops!To(Ops!CloseKind(exam))
    BY <1>4 DEF Ops!AllChecked
  <2>2. ASSUME Clear(exam), ~exam.truncated, NEW n \in {1, 2}, n <= exam.kind
        PROVE  ~Wrong("object", Table(n))
    <3>1. ObjectsSeen(exam) /\ exam.op \in {"consistency", "baseline"}
      BY <1>1, <1>2, <1>4, <2>2 DEF Examined
    <3>2. CASE n = exam.kind
      BY <1>1, <2>2, <3>1, <3>2 DEF ObjectsSeen, Wrong
    <3>3. CASE n # exam.kind
      <4>1. n \in TablesRead(exam)
        BY <1>1, <1>2, <1>4, <2>2, <3>3 DEF TablesRead, ReadingTables
      <4> QED
        BY <3>1, <4>1 DEF ObjectsSeen
    <3> QED
      BY <3>2, <3>3
  <2>3. /\ Ops!CloseKind(exam) \in Exams /\ Examined(Ops!CloseKind(exam))
        /\ exam.status # "ok" => Ops!CloseKind(exam).status # "ok"
    BY <1>1, <1>2, <1>4, <2>2, CloseKindIs DEF Examined
  <2> QED
    BY <1>1, <2>1, <2>3, ToStep
<1> QED
  BY <1>3, <1>4

LEMMA CompareStep ==
  ASSUME OpsInv, Ops!CompareMetadata
  PROVE  OpsInv'
<1>1. exam # Ops!Quiet /\ exam.pc = "compare" /\ exam \in Exams /\ Examined(exam) /\ OpsShape
  BY DEF OpsInv, OpsShape, Ops!CompareMetadata, Ops!During
<1>2. /\ exam.op = "verify" /\ exam.kind = 1 /\ exam.total = 0 /\ exam.op \in Ops!Ops
      /\ manifest.objects \in SUBSET Ops!Items
      /\ exam.found \in SUBSET {"issue", "orphan", "failed"}
  BY <1>1 DEF Examined, Placed, Exams, OpsShape
<1> DEFINE found == IF ~exam.truncated /\ exam.listed # manifest.objects
                      THEN exam.found \cup {"issue"} ELSE exam.found
           o == [exam EXCEPT !.pc = "size", !.todo = manifest.objects, !.found = found]
<1>3. Ops!To(o)
  BY DEF Ops!CompareMetadata
<1>4. /\ found \in SUBSET {"issue", "orphan", "failed"}
      /\ found = {} => exam.found = {} /\ (exam.truncated \/ exam.listed = manifest.objects)
  BY <1>2
<1> HIDE DEF found
<1>5. /\ o \in Exams /\ o.pc = "size" /\ o.kind = exam.kind /\ o.op = exam.op
      /\ o.status = exam.status /\ o.crowded = exam.crowded /\ o.found = found
      /\ o.truncated = exam.truncated /\ o.listed = exam.listed /\ o.total = exam.total
      /\ o.todo = manifest.objects
  BY <1>1, <1>2, <1>4 DEF Exams, ExamPC
<1> HIDE DEF o
<1>6. Placed(o) /\ TableCounted(o) /\ Whole(o) /\ Unlisted(o)
  BY <1>1, <1>2, <1>5 DEF Examined, Placed, TableCounted, Whole, Unlisted, Restoring, ReadingTables
<1>7. ASSUME Clear(o) PROVE ObjectsSeen(o) /\ OrphansSeen(o) /\ RowsSeen(o)
  <2>1. Clear(exam) /\ ~exam.truncated /\ exam.listed = manifest.objects
    BY <1>1, <1>2, <1>4, <1>5, <1>7 DEF Clear, Examined, Whole, Restoring, ReadingTables
  <2>2. ~Wrong("object", Ops!Items \ o.todo)
    BY <1>1, <1>2, <1>5, FaultIs DEF Wrong, Examined
  <2>3. RowsSeen(exam) /\ Unlisted(exam) /\ TablesRead(exam) = {1, 2} /\ TablesRead(o) = {1, 2}
    BY <1>1, <1>2, <1>5, <2>1 DEF Examined, TablesRead, ReadingTables
  <2>4. \A n \in {1, 2} : ~Wrong("row", Table(n) \ manifest.objects)
    BY <1>2, <2>1, <2>3 DEF RowsSeen
  <2>5. ~Wrong("row", manifest.objects)
    BY <1>2, <2>1, <2>3 DEF Unlisted, Wrong
  <2>6. ~Wrong("row", Ops!Items)
    BY <2>4, <2>5, TableOf DEF Wrong
  <2>7. \A n \in {1, 2} : ~Wrong("row", Table(n) \ (manifest.objects \cup o.listed))
    BY <2>4 DEF Wrong
  <2> QED
    BY <1>2, <1>5, <2>2, <2>3, <2>6, <2>7 DEF ObjectsSeen, OrphansSeen, RowsSeen
<1>8. Examined(o)
  BY <1>1, <1>5, <1>6, <1>7 DEF Examined
<1> QED
  BY <1>1, <1>3, <1>5, <1>8, ToStep

\* An object that has been an orphan all the time is among those found.
LEMMA OrphansStep ==
  ASSUME OpsInv, Ops!FindOrphans
  PROVE  OpsInv'
<1>1. exam # Ops!Quiet /\ exam.pc = "orphans" /\ exam \in Exams /\ Examined(exam) /\ OpsShape
  BY DEF OpsInv, OpsShape, Ops!FindOrphans, Ops!During
<1>2. /\ exam.op \in {"baseline", "verify"} /\ exam.op \in Ops!Ops /\ exam.kind \in {1, 2}
      /\ exam.found \in SUBSET {"issue", "orphan", "failed"} /\ exam.total \in Sums
  BY <1>1 DEF Examined, Placed, Exams, Restoring
<1>3. faults \subseteq Ops!FaultsFor(exam.op)
  BY <1>1 DEF Examined
<1>4. exam.found = {} => Ops!HasRoom
  BY <1>1, PartsAssumption DEF Examined, Placed, Ops!HasRoom
<1>5. Ops!Orphans = {} => ~Wrong("orphan", Table(exam.kind))
  <2>1. ASSUME NEW i \in Table(exam.kind), <<"orphan", i>> \in faults
        PROVE  i \in Ops!Orphans
    <3>1. /\ blob[i] # "none" /\ i \notin IF exam.op = "verify" THEN manifest.objects ELSE rows
      BY <1>1, <1>2, <1>3, <2>1, FaultIs
    <3>2. exam.op = "baseline" => i \notin exam.listed
      BY <1>1, <2>1 DEF Examined, Unlisted
    <3>3. i \in Ops!OfKind(Ops!Kind)
      BY <1>2, <2>1, TableOf DEF Ops!Kind
    <3> QED
      BY <1>2, <3>1, <3>2, <3>3 DEF Ops!Orphans, Ops!Expected
  <2> QED
    BY <2>1 DEF Wrong
<1> DEFINE q(kind, pc, total, found) ==
             [exam EXCEPT !.kind = kind, !.pc = pc, !.total = total, !.found = found]
<1>6. ASSUME NEW kind \in {1, 2}, NEW pc \in {"orphans", "ping"}, NEW total \in Sums,
             NEW found \in SUBSET {"issue", "orphan", "failed"},
             Ops!To(q(kind, pc, total, found)), exam.found # {} => found # {},
             pc = "orphans" /\ found = {} => total = 0,
             found = {} /\ pc = "orphans" => ~Wrong("orphan", Bundles),
             Clear(exam) /\ found = {} /\ pc = "ping" => ~Wrong("orphan", Ops!Items)
      PROVE  OpsInv'
  <2> DEFINE o == q(kind, pc, total, found)
  <2>1. /\ o \in Exams /\ o.pc = pc /\ o.kind = kind /\ o.op = exam.op
        /\ o.status = exam.status /\ o.crowded = exam.crowded /\ o.found = found
        /\ o.truncated = exam.truncated /\ o.listed = exam.listed /\ o.total = total
    BY <1>1, <1>6 DEF Exams, ExamPC
  <2>2. Ops!To(o)
    BY <1>6
  <2> HIDE DEF o, q
  <2>3. Placed(o) /\ TableCounted(o) /\ Whole(o) /\ Unlisted(o)
    BY <1>1, <1>2, <1>6, <2>1
       DEF Examined, Placed, TableCounted, Whole, Unlisted, Restoring, ReadingTables
  <2>4. Clear(o) => Clear(exam) /\ found = {}
    BY <1>6, <2>1 DEF Clear
  <2>5. Clear(o) => OrphansSeen(o)
    BY <1>6, <2>1, <2>4 DEF OrphansSeen
  <2>6. Clear(o) => ObjectsSeen(o) /\ RowsSeen(o)
    BY <1>1, <1>2, <1>6, <2>1, <2>4 DEF Examined, ObjectsSeen, RowsSeen, TablesRead, ReadingTables
  <2>7. Examined(o)
    BY <1>3, <2>1, <2>3, <2>5, <2>6 DEF Examined
  <2> QED
    BY <1>1, <2>1, <2>2, <2>7, ToStep
<1>7. CASE Ops!Incomplete
  <2>1. Ops!To([exam EXCEPT !.pc = "ping"])
    BY <1>7 DEF Ops!FindOrphans
  <2>2. [exam EXCEPT !.pc = "ping"] = q(exam.kind, "ping", exam.total, exam.found)
    BY <1>1 DEF Exams
  <2>3. Clear(exam) => ~Wrong("orphan", Ops!Items)
    <3>1. ASSUME Clear(exam) PROVE exam.op = "verify" /\ manifest.truncated
      BY <1>1, <1>2, <1>7, <3>1
         DEF Clear, Examined, Whole, Restoring, ReadingTables, Ops!Incomplete
    <3>2. \A i : <<"orphan", i>> \in faults => (exam.op = "verify" => ~manifest.truncated)
      BY <1>1, <1>2, <1>3, FaultIs
    <3> QED
      BY <3>1, <3>2 DEF Wrong
  <2> HIDE DEF q
  <2> QED
    BY <1>2, <1>6, <2>1, <2>2, <2>3
<1>8. CASE ~Ops!Incomplete
  <2> DEFINE kind == IF exam.kind = 1 THEN 2 ELSE 1
             pc == IF exam.kind = 1 THEN "orphans" ELSE "ping"
             total(n) == IF exam.kind = 1 THEN n ELSE 0
             more == IF Ops!HasRoom /\ Ops!Orphans # {} THEN exam.found \cup {"orphan"}
                     ELSE exam.found
             failed == IF Ops!HasRoom THEN exam.found \cup {"failed"} ELSE exam.found
             next(n) == [exam EXCEPT !.kind = IF @ = 1 THEN 2 ELSE 1,
                                     !.pc = IF exam.kind = 1 THEN @ ELSE "ping",
                                     !.total = IF exam.kind = 1 THEN n ELSE 0]
             orphans == Ops!Cardinality(Ops!Orphans)
  <2>1. \A n : next(n).found = exam.found /\
          \A found : [next(n) EXCEPT !.found = found] = q(kind, pc, total(n), found)
    BY <1>1 DEF Exams
  <2>2. \/ Ops!To([next(orphans) EXCEPT !.found =
                     IF Ops!HasRoom /\ Ops!Orphans # {} THEN next(orphans).found \cup {"orphan"}
                     ELSE next(orphans).found])
        \/ Ops!To([next(1) EXCEPT !.found =
                     IF Ops!HasRoom THEN next(1).found \cup {"failed"} ELSE next(1).found])
    BY <1>8 DEF Ops!FindOrphans
  <2>3. Ops!To(q(kind, pc, total(orphans), more)) \/ Ops!To(q(kind, pc, total(1), failed))
    <3> HIDE DEF next, q, kind, pc, total, orphans
    <3>1. next(orphans).found = exam.found /\ next(1).found = exam.found
      BY <2>1
    <3>2. Ops!To([next(orphans) EXCEPT !.found = more]) \/ Ops!To([next(1) EXCEPT !.found = failed])
      BY <2>2, <3>1
    <3> HIDE DEF more, failed
    <3> QED
      BY <2>1, <3>2
  <2>4. /\ kind \in {1, 2} /\ pc \in {"orphans", "ping"}
        /\ more \in SUBSET {"issue", "orphan", "failed"}
        /\ failed \in SUBSET {"issue", "orphan", "failed"}
        /\ (exam.found # {} => more # {} /\ failed # {}) /\ failed # {}
        /\ more = {} => Ops!Orphans = {}
    BY <1>2, <1>4
  <2>5. orphans \in Sums /\ 0 \in Sums /\ 1 \in Sums
    <3>1. Ops!Orphans \in SUBSET Ops!Items
      BY <1>2, TableOf DEF Ops!Orphans, Ops!Kind
    <3> QED
      BY <3>1, SameOpsCardinality DEF Sums
  <2>6. Ops!Orphans = {} => orphans = 0
    BY SameOpsCardinality, FS_EmptySet
  <2>7. total(orphans) \in Sums /\ total(1) \in Sums /\ (more = {} => total(orphans) = 0)
    BY <2>4, <2>5, <2>6
  <2>8. /\ more = {} /\ pc = "orphans" => ~Wrong("orphan", Bundles)
        /\ Clear(exam) /\ more = {} /\ pc = "ping" => ~Wrong("orphan", Ops!Items)
    <3>1. more = {} => ~Wrong("orphan", Table(exam.kind))
      BY <1>5, <2>4
    <3>2. CASE exam.kind = 1
      BY <3>1, <3>2 DEF Table
    <3>3. CASE exam.kind = 2
      <4>1. Clear(exam) => ~Wrong("orphan", Bundles)
        BY <1>1, <1>2, <3>3 DEF Examined, OrphansSeen, Restoring
      <4> QED
        BY <3>1, <3>3, <4>1 DEF Table, Wrong, Ops!Items
    <3> QED
      BY <1>2, <3>2, <3>3
  <2> HIDE DEF q, kind, pc, total, more, failed, orphans
  <2>9. CASE Ops!To(q(kind, pc, total(orphans), more))
    BY <1>6, <2>4, <2>7, <2>8, <2>9
  <2>10. CASE Ops!To(q(kind, pc, total(1), failed))
    BY <1>6, <2>4, <2>7, <2>10
  <2> QED
    BY <2>3, <2>9, <2>10
<1> QED
  BY <1>7, <1>8

\* The check of the dependencies looks at no row.
LEMMA DependencyIs ==
  ASSUME NEW e \in Exams, e.op = "dependency", faults \subseteq Ops!FaultsFor(e.op),
         e.pc \in {"ping", "storage", "put", "stat", "read", "remove", "report"}
  PROVE  Examined(e)
BY DEF Examined, Placed, TableCounted, Whole, Unlisted, ObjectsSeen, OrphansSeen, RowsSeen, Restoring

LEMMA PingStep ==
  ASSUME OpsInv, Ops!PingDependencies
  PROVE  OpsInv'
<1>1. exam # Ops!Quiet /\ exam.pc = "ping" /\ exam \in Exams /\ Examined(exam)
  BY DEF OpsInv, OpsShape, Ops!PingDependencies, Ops!During
<1>2. exam.op \in {"dependency", "baseline", "verify"} /\ exam.status \in Ops!Statuses
  BY <1>1 DEF Examined, Placed, Exams, Ops!Ops
<1>3. PICK dbStatus \in {"ok", "unhealthy"}, cacheStatus \in {"ok", "degraded"} :
        Ops!To([exam EXCEPT !.pc = IF exam.op = "dependency" THEN "storage" ELSE "report",
                            !.status = Ops!Worse(@, Ops!Worse(dbStatus, cacheStatus))])
  BY DEF Ops!PingDependencies
<1> DEFINE pc == IF exam.op = "dependency" THEN "storage" ELSE "report"
           status == Ops!Worse(exam.status, Ops!Worse(dbStatus, cacheStatus))
           o == [exam EXCEPT !.pc = pc, !.status = status]
<1>4. Ops!To(o)
  BY <1>3
<1>5. /\ status \in Ops!Statuses /\ (status = "ok" => exam.status = "ok")
      /\ pc \in ExamPC
      /\ exam.op = "dependency" => pc = "storage"
      /\ exam.op # "dependency" => pc = "report"
  <2>1. Ops!Worse(dbStatus, cacheStatus) \in Ops!Statuses
    BY WorseIs DEF Ops!Statuses
  <2> QED
    BY <1>2, <2>1, WorseIs DEF ExamPC
<1> HIDE DEF pc, status
<1>6. /\ o \in Exams /\ o.pc = pc /\ o.kind = exam.kind /\ o.op = exam.op
      /\ o.status = status /\ o.crowded = exam.crowded /\ o.found = exam.found
      /\ o.truncated = exam.truncated /\ o.listed = exam.listed
  BY <1>1, <1>5 DEF Exams
<1> HIDE DEF o
<1>7. CASE exam.op = "dependency"
  <2>0. faults \subseteq Ops!FaultsFor(o.op)
    BY <1>1, <1>6 DEF Examined
  <2>1. Examined(o)
    BY <1>5, <1>6, <1>7, <2>0, DependencyIs
  <2> QED
    BY <1>1, <1>4, <1>5, <1>6, <2>1, ToStep
<1>8. CASE exam.op # "dependency"
  <2>1. Placed(o) /\ TableCounted(o) /\ Whole(o) /\ Unlisted(o)
    BY <1>1, <1>2, <1>5, <1>6, <1>8
       DEF Examined, Placed, TableCounted, Whole, Unlisted, Restoring, ReadingTables
  <2>2. Clear(o) => ObjectsSeen(o) /\ OrphansSeen(o) /\ RowsSeen(o)
    BY <1>1, <1>2, <1>5, <1>6, <1>8
       DEF Examined, Clear, ObjectsSeen, OrphansSeen, RowsSeen, Restoring, TablesRead, ReadingTables
  <2>3. Examined(o)
    BY <1>1, <1>6, <2>1, <2>2 DEF Examined
  <2> QED
    BY <1>1, <1>4, <1>5, <1>6, <2>3, ToStep
<1> QED
  BY <1>7, <1>8

\* The steps of the storage probe.
LEMMA ProbeStep ==
  ASSUME OpsInv,
         \/ Ops!ListStorage \/ Ops!PutProbe \/ Ops!ReadProbe("stat", "read")
         \/ Ops!ReadProbe("read", "remove") \/ Ops!DeleteProbe
  PROVE  OpsInv'
<1>1. /\ exam # Ops!Quiet /\ exam.pc \in {"storage", "put", "stat", "read", "remove"}
      /\ exam \in Exams /\ Examined(exam)
  BY DEF OpsInv, OpsShape, Ops!ListStorage, Ops!PutProbe, Ops!ReadProbe, Ops!DeleteProbe, Ops!During
<1>2. exam.op = "dependency" /\ exam.status \in Ops!Statuses
  BY <1>1 DEF Examined, Placed, Exams
<1> DEFINE o(pc, status) == [exam EXCEPT !.pc = pc, !.status = status]
           worse == Ops!Worse(exam.status, "degraded")
<1>3. /\ worse \in Ops!Statuses /\ worse # "ok"
      /\ {"ok", "degraded", "unhealthy"} = Ops!Statuses
  BY <1>2, WorseIs DEF Ops!Statuses
<1>4. /\ UNCHANGED <<rows, later, pending, blob, manifest, faults, report>>
      /\ \/ probe' \in BOOLEAN /\ exam' = [exam EXCEPT !.pc = "report", !.status = "unhealthy"]
         \/ probe' \in BOOLEAN
            /\ exam' = [exam EXCEPT !.pc = "report", !.status = Ops!Worse(@, "degraded")]
         \/ probe' = FALSE /\ exam' = [exam EXCEPT !.pc = "report"]
         \/ UNCHANGED probe /\ exam.pc = "storage" /\ exam' = [exam EXCEPT !.pc = "put"]
         \/ probe' = TRUE /\ exam' = [exam EXCEPT !.pc = "stat"]
         \/ UNCHANGED probe /\ exam' = [exam EXCEPT !.pc = "read"]
         \/ UNCHANGED probe /\ exam' = [exam EXCEPT !.pc = "remove"]
  <2>1. probe \in BOOLEAN
    BY DEF OpsInv, OpsShape
  <2> QED
    BY <2>1 DEF Ops!ListStorage, Ops!PutProbe, Ops!ReadProbe, Ops!DeleteProbe, Ops!To,
                Ops!untouched, Ops!During
<1>5. \A pc : [exam EXCEPT !.pc = pc] = o(pc, exam.status)
  BY <1>1 DEF Exams
<1>6. PICK pc \in {"put", "stat", "read", "remove", "report"}, status \in Ops!Statuses :
        /\ exam' = o(pc, status) /\ probe' \in BOOLEAN
        /\ \/ status # "ok" /\ pc = "report"
           \/ status = exam.status /\ pc = "report" /\ probe' = FALSE
           \/ status = exam.status /\ exam.pc = "storage" /\ probe' = probe
           \/ pc \in {"stat", "read", "remove"}
  <2>1. probe \in BOOLEAN
    BY DEF OpsInv, OpsShape
  <2>2. [exam EXCEPT !.pc = "report", !.status = Ops!Worse(@, "degraded")] = o("report", worse)
    OBVIOUS
  <2>3. [exam EXCEPT !.pc = "report", !.status = "unhealthy"] = o("report", "unhealthy")
    OBVIOUS
  <2> HIDE DEF o, worse
  <2> QED
    BY <1>2, <1>3, <1>4, <1>5, <2>1, <2>2, <2>3
<1>7. /\ exam' \in Exams /\ exam'.pc = pc /\ exam'.status = status /\ exam'.op = "dependency"
  <2>1. pc \in ExamPC
    BY DEF ExamPC
  <2> QED
    BY <1>1, <1>2, <1>6, <2>1 DEF Exams
<1>8. exam' # Ops!Quiet
  BY <1>7 DEF Exams, Ops!Quiet
<1> HIDE DEF o
<1>9. OpsShape'
  BY <1>4, <1>6, <1>7 DEF OpsInv, OpsShape
<1>10. Examined(exam)'
  <2>1. (faults \subseteq Ops!FaultsFor(exam.op))'
    BY <1>1, <1>2, <1>4, <1>7 DEF Examined, Ops!FaultsFor
  <2> QED
    BY <1>7, <2>1 DEF Examined, Placed, TableCounted, Whole, Unlisted, ObjectsSeen, OrphansSeen,
                      RowsSeen, Restoring
<1>11. Probed'
  BY <1>1, <1>6, <1>7, <1>8 DEF OpsInv, Probed
<1>12. Ops!OkIsTrue'
  BY <1>4 DEF OpsInv, Ops!OkIsTrue
<1> QED
  BY <1>9, <1>10, <1>11, <1>12 DEF OpsInv

LEMMA BeginCheckStep ==
  ASSUME OpsInv, NEW op \in Ops!Ops, NEW limit \in Limits, Ops!BeginCheck(op, limit)
  PROVE  OpsInv'
<1> DEFINE wide == Ops!Cardinality(manifest.objects)
           bound == IF op = "verify" /\ wide > limit /\ wide <= DefaultLimit THEN wide ELSE limit
           pc == IF op = "dependency" THEN "ping" ELSE "count"
           o == [pc |-> pc, op |-> op, limit |-> bound, kind |-> 1, total |-> 0, todo |-> {},
                 listed |-> {}, truncated |-> FALSE, few |-> FALSE, found |-> {},
                 status |-> "ok", crowded |-> FALSE, moves |-> 0]
<1>1. /\ exam = Ops!Quiet /\ exam' = o /\ faults' = Ops!FaultsFor(op) /\ report' = Ops!NoReport
      /\ manifest' = IF op = "baseline" THEN Ops!NoManifest ELSE manifest
      /\ UNCHANGED <<rows, later, pending, blob, probe>>
  BY DEF Ops!BeginCheck
<1>2. bound \in Limits \cup Sums /\ pc \in ExamPC /\ 0 \in Sums
  <2>1. wide \in Sums
    BY SameOpsCardinality DEF Sums, OpsInv, OpsShape
  <2> QED
    BY <2>1 DEF ExamPC, Sums
<1> HIDE DEF bound
<1>3. /\ o \in Exams /\ o.pc = pc /\ o.op = op /\ o.kind = 1 /\ o.listed = {} /\ o # Ops!Quiet
  BY <1>2 DEF Exams, Ops!Statuses, Ops!Quiet
<1> HIDE DEF o
<1>4. OpsShape'
  BY <1>1, <1>3 DEF OpsInv, OpsShape, Ops!NoManifest
<1>5. Ops!FaultsFor(op) = Ops!FaultsFor(exam.op)'
  <2>1. exam'.op = op
    BY <1>1, <1>3
  <2>2. op # "verify" \/ manifest' = manifest
    BY <1>1
  <2> QED
    BY <1>1, <2>1, <2>2 DEF Ops!FaultsFor
<1>6. (Placed(exam) /\ TableCounted(exam) /\ Whole(exam) /\ Unlisted(exam))'
  BY <1>1, <1>3 DEF Placed, TableCounted, Whole, Unlisted, Restoring, ReadingTables
<1>7. TablesRead(exam)' = {} \/ op = "dependency"
  BY <1>1, <1>3 DEF TablesRead, ReadingTables
<1>8. (ObjectsSeen(exam) /\ OrphansSeen(exam) /\ RowsSeen(exam))'
  BY <1>1, <1>3, <1>7 DEF ObjectsSeen, OrphansSeen, RowsSeen, Restoring
<1>9. Examined(exam)'
  BY <1>1, <1>5, <1>6, <1>8 DEF Examined
<1>10. Probed' /\ Ops!OkIsTrue'
  BY <1>1 DEF OpsInv, Probed, Ops!OkIsTrue, Ops!NoReport
<1> QED
  BY <1>4, <1>9, <1>10 DEF OpsInv

\* A step of somebody else: what is wrong gets less, and so does the table while it is
\* counted, or the check is marked.
LEMMA MeanwhileStep ==
  ASSUME OpsInv, NEW e, Ops!Meanwhile(e), rows' \in SUBSET Ops!Items, IsFiniteSet(rows'),
         exam # Ops!Quiet =>
           /\ e \in Exams
           /\ e.pc = exam.pc /\ e.op = exam.op /\ e.kind = exam.kind /\ e.total = exam.total
           /\ e.todo = exam.todo /\ e.listed = exam.listed /\ e.truncated = exam.truncated
           /\ e.found = exam.found /\ e.status = exam.status
           /\ exam.crowded => e.crowded
           /\ exam.pc = "list" /\ ~e.crowded =>
                rows' \cap Table(exam.kind) \subseteq rows \cap Table(exam.kind)
  PROVE  OpsInv'
<1>1. report' = Ops!NoReport /\ UNCHANGED <<probe, manifest>>
  BY DEF Ops!Meanwhile
<1>2. Ops!OkIsTrue'
  BY <1>1 DEF Ops!OkIsTrue, Ops!NoReport
<1>3. CASE exam = Ops!Quiet
  <2>1. UNCHANGED <<exam, faults>>
    BY <1>3 DEF Ops!Meanwhile
  <2> QED
    BY <1>1, <1>2, <1>3, <2>1 DEF OpsInv, OpsShape, Probed
<1>4. CASE exam # Ops!Quiet
  <2>1. exam' = [e EXCEPT !.moves = @ + 1] /\ faults' = faults \cap Ops!FaultsFor(exam.op)'
    BY <1>4 DEF Ops!Meanwhile
  <2>2. /\ exam' \in Exams /\ exam' # Ops!Quiet
        /\ exam'.pc = exam.pc /\ exam'.op = exam.op /\ exam'.kind = exam.kind
        /\ exam'.total = exam.total /\ exam'.todo = exam.todo /\ exam'.listed = exam.listed
        /\ exam'.truncated = exam.truncated /\ exam'.found = exam.found
        /\ exam'.status = exam.status /\ exam'.crowded = e.crowded
    <3>1. e \in Exams
      BY <1>4
    <3>2. /\ exam' \in Exams
          /\ exam'.pc = e.pc /\ exam'.op = e.op /\ exam'.kind = e.kind
          /\ exam'.total = e.total /\ exam'.todo = e.todo /\ exam'.listed = e.listed
          /\ exam'.truncated = e.truncated /\ exam'.found = e.found
          /\ exam'.status = e.status /\ exam'.crowded = e.crowded
      BY <2>1, <3>1 DEF Exams
    <3>3. exam' # Ops!Quiet
      BY <3>2 DEF Exams, Ops!Quiet
    <3> QED
      BY <1>4, <3>2, <3>3
  <2>3. OpsShape'
    BY <1>1, <2>2 DEF OpsInv, OpsShape
  <2>4. Examined(exam) /\ exam \in Exams
    BY <1>4 DEF OpsInv, OpsShape
  <2>5. faults' \subseteq faults /\ faults' \subseteq Ops!FaultsFor(exam.op)'
    BY <2>1
  <2>6. TableCounted(exam)'
    <3>1. SUFFICES ASSUME exam.pc = "list", ~e.crowded
                   PROVE  /\ exam.total \in Nat
                          /\ Cardinality(rows' \cap Table(exam.kind)) <= exam.total
      BY <2>2 DEF TableCounted
    <3>2. /\ rows' \cap Table(exam.kind) \in SUBSET (rows \cap Table(exam.kind))
          /\ ~exam.crowded
      BY <1>4, <3>1
    <3>3. exam.total \in Nat /\ Cardinality(rows \cap Table(exam.kind)) <= exam.total
      BY <2>4, <3>1, <3>2 DEF Examined, TableCounted
    <3>4. IsFiniteSet(rows \cap Table(exam.kind))
      BY FS_Subset DEF OpsInv, OpsShape
    <3>5. /\ Cardinality(rows' \cap Table(exam.kind)) <= Cardinality(rows \cap Table(exam.kind))
          /\ Cardinality(rows' \cap Table(exam.kind)) \in Nat
          /\ Cardinality(rows \cap Table(exam.kind)) \in Nat
      BY <3>2, <3>4, FS_Subset, FS_CardinalityType
    <3> QED
      BY <3>3, <3>5
  <2>7. (Placed(exam) /\ Whole(exam))'
    BY <2>2, <2>4 DEF Examined, Placed, Whole, Restoring, ReadingTables
  <2>8. Unlisted(exam)'
    BY <1>1, <2>2, <2>4, <2>5 DEF Examined, Unlisted
  <2>9. \A k, S : Wrong(k, S)' => Wrong(k, S)
    BY <2>5 DEF Wrong
  <2>10. Clear(exam)' => Clear(exam)
    BY <1>4, <2>2 DEF Clear
  <2>11. TablesRead(exam)' = TablesRead(exam)
    BY <2>2 DEF TablesRead, ReadingTables
  <2>12. Clear(exam)' => ObjectsSeen(exam)'
    BY <2>2, <2>4, <2>5, <2>10, <2>11 DEF Examined, ObjectsSeen, Wrong
  <2>13. Clear(exam)' => OrphansSeen(exam)' /\ RowsSeen(exam)'
    BY <1>1, <2>2, <2>4, <2>5, <2>10, <2>11
       DEF Examined, OrphansSeen, RowsSeen, Restoring, Wrong
  <2>14. Examined(exam)'
    BY <2>5, <2>6, <2>7, <2>8, <2>12, <2>13 DEF Examined
  <2>15. Probed'
    BY <1>1, <1>4, <2>2 DEF OpsInv, Probed
  <2> QED
    BY <1>2, <2>3, <2>14, <2>15 DEF OpsInv
<1> QED
  BY <1>3, <1>4

LEMMA OthersStep ==
  ASSUME OpsInv, NEW i \in Ops!Items,
         \/ Ops!CreateRow(i) \/ Ops!PutBlob(i) \/ Ops!RemoveRow(i) \/ Ops!PurgeItem(i)
         \/ Ops!Damage(i)
  PROVE  OpsInv'
<1>1. rows \in SUBSET Ops!Items /\ IsFiniteSet(rows) /\ exam \in {Ops!Quiet} \cup Exams
  BY DEF OpsInv, OpsShape
<1>2. CASE Ops!CreateRow(i)
  <2> DEFINE e == Ops!Crowded(i)
  <2>1. rows' = rows \cup {i} /\ Ops!Meanwhile(e)
    BY <1>2 DEF Ops!CreateRow
  <2>2. rows' \in SUBSET Ops!Items /\ IsFiniteSet(rows')
    BY <1>1, <2>1, FS_AddElement
  <2>3. ASSUME exam # Ops!Quiet
        PROVE  /\ e \in Exams
               /\ e.pc = exam.pc /\ e.op = exam.op /\ e.kind = exam.kind /\ e.total = exam.total
               /\ e.todo = exam.todo /\ e.listed = exam.listed /\ e.truncated = exam.truncated
               /\ e.found = exam.found /\ e.status = exam.status
               /\ exam.crowded => e.crowded
               /\ exam.pc = "list" /\ ~e.crowded =>
                    rows' \cap Table(exam.kind) \subseteq rows \cap Table(exam.kind)
    <3>1. exam \in Exams /\ exam.kind \in {1, 2}
      BY <1>1, <2>3 DEF Exams
    <3>2. CASE exam.pc = "list" /\ i \in Table(exam.kind)
      <4>1. e = [exam EXCEPT !.crowded = TRUE]
        BY <2>3, <3>1, <3>2, TableOf DEF Ops!Crowded
      <4>2. e.crowded /\ e \in Exams
        BY <3>1, <4>1 DEF Exams
      <4>3. /\ e.pc = exam.pc /\ e.op = exam.op /\ e.kind = exam.kind /\ e.total = exam.total
            /\ e.todo = exam.todo /\ e.listed = exam.listed /\ e.truncated = exam.truncated
            /\ e.found = exam.found /\ e.status = exam.status
        BY <3>1, <4>1 DEF Exams
      <4> HIDE DEF e
      <4> QED
        BY <4>2, <4>3
    <3>3. CASE ~(exam.pc = "list" /\ i \in Table(exam.kind))
      <4>1. e = exam
        BY <2>3, <3>1, <3>3, TableOf DEF Ops!Crowded
      <4> HIDE DEF e
      <4> QED
        BY <2>1, <3>1, <3>3, <4>1
    <3> QED
      BY <3>2, <3>3
  <2> HIDE DEF e
  <2> QED
    BY <2>1, <2>2, <2>3, MeanwhileStep
<1>3. CASE ~Ops!CreateRow(i)
  <2>1. Ops!Meanwhile(exam) /\ (rows' = rows \/ rows' = rows \ {i})
    BY <1>3 DEF Ops!PutBlob, Ops!RemoveRow, Ops!PurgeItem, Ops!Damage
  <2>2. rows' \in SUBSET rows
    BY <2>1
  <2>3. rows' \in SUBSET Ops!Items /\ IsFiniteSet(rows')
    BY <1>1, <2>2, FS_Subset
  <2>4. exam # Ops!Quiet => exam \in Exams
    BY <1>1
  <2> QED
    BY <2>1, <2>2, <2>3, <2>4, MeanwhileStep
<1> QED
  BY <1>2, <1>3

LEMMA ReportStep ==
  ASSUME OpsInv, Ops!Report
  PROVE  OpsInv'
<1>1. exam # Ops!Quiet /\ exam.pc = "report" /\ exam \in Exams /\ Examined(exam) /\ OpsShape
  BY DEF OpsInv, OpsShape, Ops!Report, Ops!During
<1>2. /\ exam.op \in Ops!Ops /\ exam.status \in Ops!Statuses
      /\ exam.found \in SUBSET {"issue", "orphan", "failed"} /\ exam.listed \in SUBSET Ops!Items
      /\ exam.truncated \in BOOLEAN
  BY <1>1 DEF Exams
<1>3. /\ exam' = Ops!Quiet /\ probe' = FALSE /\ UNCHANGED rows
      /\ report'.status = Ops!Verdict /\ report'.crowded = exam.crowded
      /\ exam.op = "dependency" => report'.missed = IF probe THEN {"probe"} ELSE {}
      /\ exam.op # "dependency" => report'.missed = faults
      /\ manifest' = IF exam.op = "baseline"
                       THEN [taken |-> TRUE, objects |-> exam.listed, truncated |-> exam.truncated]
                       ELSE manifest
  BY DEF Ops!Report
<1>4. OpsShape' /\ Probed'
  BY <1>1, <1>2, <1>3 DEF OpsShape, Probed
<1>5. ASSUME Ops!Verdict = "ok"
      PROVE  exam.status = "ok" /\ (exam.op # "dependency" => exam.found = {})
  <2>1. CASE exam.op \in {"baseline", "verify"}
    <3>1. /\ Ops!RestoreOverall(exam.found) \in Ops!Statuses
          /\ Ops!RestoreOverall(exam.found) = "ok" => exam.found = {}
      BY <1>2 DEF Ops!RestoreOverall, Ops!Statuses
    <3> QED
      BY <1>2, <1>5, <2>1, <3>1, WorseIs DEF Ops!Verdict
  <2>2. CASE exam.op \notin {"baseline", "verify"}
    <3>1. exam.status = "ok"
      BY <1>5, <2>2 DEF Ops!Verdict
    <3> QED
      BY <1>1, <1>2, <2>2, <3>1 DEF Examined, Whole, Ops!Ops
  <2> QED
    BY <2>1, <2>2
<1>6. ASSUME Clear(exam), NEW f \in faults PROVE FALSE
  <2>1. faults \subseteq Ops!FaultsFor(exam.op) /\ ObjectsSeen(exam) /\ OrphansSeen(exam) /\ RowsSeen(exam)
    BY <1>1, <1>6 DEF Examined
  <2>2. f \in Ops!FaultsFor(exam.op)
    BY <1>6, <2>1
  <2>3. PICK kind \in {"object", "orphan", "row"}, i \in Ops!Items : f = <<kind, i>>
    BY <1>1, <1>2, <2>2, FaultIs
  <2>4. /\ exam.op # "dependency"
        /\ kind = "orphan" => exam.op \in {"baseline", "verify"}
        /\ kind = "row" => exam.op = "verify"
    BY <1>1, <1>2, <2>2, <2>3, FaultIs
  <2>5. CASE kind = "object"
    <3>1. PICK n \in {1, 2} : i \in Table(n)
      BY TableOf
    <3>2. TablesRead(exam) = {1, 2}
      BY <1>1 DEF TablesRead, ReadingTables
    <3> QED
      BY <1>1, <1>2, <1>6, <2>1, <2>3, <2>4, <2>5, <3>1, <3>2 DEF ObjectsSeen, Wrong, Ops!Ops
  <2>6. CASE kind = "orphan"
    BY <1>1, <1>6, <2>1, <2>3, <2>4, <2>6 DEF OrphansSeen, Wrong, Restoring
  <2>7. CASE kind = "row"
    BY <1>1, <1>6, <2>1, <2>3, <2>4, <2>7 DEF RowsSeen, Wrong
  <2> QED
    BY <2>3, <2>5, <2>6, <2>7
<1>7. Ops!OkIsTrue'
  <2>1. SUFFICES ASSUME Ops!Verdict = "ok", ~exam.crowded PROVE report'.missed = {}
    BY <1>3 DEF Ops!OkIsTrue
  <2>2. CASE exam.op = "dependency"
    BY <1>1, <1>3, <1>5, <2>1, <2>2 DEF OpsInv, Probed
  <2>3. CASE exam.op # "dependency"
    BY <1>3, <1>5, <1>6, <2>1, <2>3 DEF Clear
  <2> QED
    BY <2>2, <2>3
<1> QED
  BY <1>3, <1>4, <1>7 DEF OpsInv

LEMMA OpsAlways == Spec => []OpsInv
<1>1. Init => OpsInv
  <2> SUFFICES ASSUME Ops!OpsInit PROVE OpsInv
    BY DEF Init
  <2>1. OpsShape
    BY FS_EmptySet DEF Ops!OpsInit, OpsShape, Ops!NoManifest
  <2>2. exam = Ops!Quiet /\ ~probe /\ report.status # "ok"
    BY DEF Ops!OpsInit, Ops!NoReport
  <2> QED
    BY <2>1, <2>2 DEF OpsInv, Probed, Ops!OkIsTrue
<1>2. OpsInv /\ [Next]_vars => OpsInv'
  <2> SUFFICES ASSUME OpsInv, [Next]_vars PROVE OpsInv'
    OBVIOUS
  <2>1. CASE UNCHANGED opsVars
    <3>1. UNCHANGED <<rows, later, pending, blob, probe, manifest, exam, faults, report>>
      BY <2>1 DEF opsVars
    <3>2. (OpsShape' <=> OpsShape) /\ (Probed' <=> Probed) /\ (Ops!OkIsTrue' <=> Ops!OkIsTrue)
      BY <3>1 DEF OpsShape, Probed, Ops!OkIsTrue
    <3>3. Ops!FaultsFor(exam.op)' = Ops!FaultsFor(exam.op)
      BY <3>1 DEF Ops!FaultsFor
    <3>4. Examined(exam)' <=> Examined(exam)
      BY <3>1, <3>3 DEF Examined, Placed, TableCounted, Whole, Unlisted, Clear, ObjectsSeen, OrphansSeen,
                        RowsSeen, Restoring, TablesRead, ReadingTables, Wrong
    <3> QED
      BY <3>1, <3>2, <3>4 DEF OpsInv
  <2>2. CASE Ops!OpsNext
    <3>1. ASSUME Ops!StopAtDeadline \/ \E i \in Ops!Items : Ops!CheckObject(i) PROVE OpsInv'
      BY <3>1, CheckObjectStep
    <3> QED
      BY <2>2, <3>1, OthersStep, BeginCheckStep, CountStep, ListStep, ListObjectsStep,
         AllCheckedStep, CompareStep, OrphansStep, PingStep, ProbeStep, ReportStep
         DEF Ops!OpsNext
  <2> QED
    BY <2>1, <2>2, PartStep
<1> QED
  BY <1>1, <1>2, PTL DEF Spec

\* A check that reports ok has missed nothing that was wrong from its beginning to its
\* end, unless a row came in between its count and its listing: no live row without
\* its object, no entry of the manifest without row and object, no orphan in a
\* rehearsal with a complete manifest, no probe object left behind; for any number of
\* items and of moves of others (CheckDependencies, CheckConsistency,
\* restoreRehearsal, finalizeConsistencyArtifact, restoreOverall).
THEOREM OkHolds == Spec => []OkIsTrue
<1>1. OpsInv => OkIsTrue
  BY DEF OpsInv, OkIsTrue
<1> QED
  BY <1>1, OpsAlways, PTL

=============================================================================
