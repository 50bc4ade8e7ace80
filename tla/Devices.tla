------------------------------- MODULE Devices -------------------------------
(***************************************************************************)
(* The devices of one user and their push tokens: requestDeviceToken,      *)
(* which registers a device or rotates its token, and RevokeDevice.        *)
(***************************************************************************)
EXTENDS Integers, FiniteSets

CONSTANTS
  Asks,      \* concurrent executions of the handlers
  Uuids,     \* device ids, chosen by clients
  MaxDevices \* MaxDevices of the user's tier

VARIABLES
  device,   \* rows of devices: none, active or revoked
  token,    \* devices with an unexpired token_hash
  recorded, \* rows of device_revocations
  ask,      \* the requests
  cut       \* history: devices whose revocation ended half way

deviceVars == <<device, token, recorded, ask, cut>>

Off == [pc |-> "idle"]

DeviceTypeOK ==
  /\ device \in [Uuids -> {"none", "active", "revoked"}]
  /\ token \subseteq Uuids
  /\ recorded \subseteq Uuids
  /\ ask \in [Asks -> {Off} \cup
                [pc : {"find", "count", "create", "update", "check", "revoke", "record"},
                 uuid : Uuids]]
  /\ cut \subseteq Uuids

DeviceInit ==
  /\ device = [d \in Uuids |-> "none"]
  /\ token = {} /\ recorded = {} /\ cut = {}
  /\ ask = [a \in Asks |-> Off]

-----------------------------------------------------------------------------
Doing(a, pc) == ask[a].pc = pc
Move(a, pc) == ask' = [ask EXCEPT ![a].pc = pc]
Leave(a) == ask' = [ask EXCEPT ![a] = Off]
State(a) == device[ask[a].uuid]

Open(a, pc, d) ==
  /\ Doing(a, "idle")
  /\ ask' = [ask EXCEPT ![a] = [pc |-> pc, uuid |-> d]]
  /\ UNCHANGED <<device, token, recorded, cut>>

\* The rate limit of the user may refuse the caller before anything is read.
RequestDeviceToken(a, d) == Open(a, "find", d)

GetByUserAndUUID(a) ==
  /\ Doing(a, "find")
  /\ CASE State(a) = "none" -> Move(a, "count")
       [] State(a) = "active" -> Move(a, "update")
       [] State(a) = "revoked" -> Leave(a)
  /\ UNCHANGED <<device, token, recorded, cut>>

CountActiveByUser == Cardinality({d \in Uuids : device[d] = "active"})

\* Mutant: off by one.
RoomForOneMore == CountActiveByUser <= MaxDevices

BelowLimit == CountActiveByUser < MaxDevices

CheckLimit(a) ==
  /\ Doing(a, "count")
  /\ IF BelowLimit THEN Move(a, "create") ELSE Leave(a)
  /\ UNCHANGED <<device, token, recorded, cut>>

\* The unique index on (user_id, device_uuid) decides between two registrations.
CreateDevice(a) ==
  /\ Doing(a, "create")
  /\ IF State(a) = "none"
       THEN /\ device' = [device EXCEPT ![ask[a].uuid] = "active"]
            /\ token' = token \cup {ask[a].uuid}
       ELSE UNCHANGED <<device, token>>
  /\ Leave(a)
  /\ UNCHANGED <<recorded, cut>>

\* By id, without a look at revoked_at.
UpdateToken(a) ==
  /\ Doing(a, "update")
  /\ token' = token \cup {ask[a].uuid}
  /\ Leave(a)
  /\ UNCHANGED <<device, recorded, cut>>

\* A day has passed.
TokenExpires(d) ==
  /\ d \in token
  /\ token' = token \ {d}
  /\ UNCHANGED <<device, recorded, ask, cut>>

-----------------------------------------------------------------------------
RevokeDevice(a, d) == Open(a, "check", d)

CheckActive(a) ==
  /\ Doing(a, "check")
  /\ IF State(a) = "active" THEN Move(a, "revoke") ELSE Leave(a)
  /\ UNCHANGED <<device, token, recorded, cut>>

Revoke(a) ==
  /\ Doing(a, "revoke")
  /\ device' = [device EXCEPT ![ask[a].uuid] = IF @ = "active" THEN "revoked" ELSE @]
  /\ Move(a, "record")
  /\ UNCHANGED <<token, recorded, cut>>

\* The push to the user's other devices follows, see PushHub.
RecordRevocation(a) ==
  /\ Doing(a, "record")
  /\ recorded' = recorded \cup {ask[a].uuid}
  /\ cut' = cut \ {ask[a].uuid}
  /\ Leave(a)
  /\ UNCHANGED <<device, token>>

\* A statement fails, the client goes away or the process stops.
Fail(a) ==
  /\ ~Doing(a, "idle")
  /\ cut' = IF Doing(a, "record") /\ ask[a].uuid \notin recorded
              THEN cut \cup {ask[a].uuid} ELSE cut
  /\ Leave(a)
  /\ UNCHANGED <<device, token, recorded>>

DeviceNext ==
  \/ \E a \in Asks, d \in Uuids : RequestDeviceToken(a, d) \/ RevokeDevice(a, d)
  \/ \E a \in Asks :
       \/ GetByUserAndUUID(a) \/ CheckLimit(a) \/ CreateDevice(a) \/ UpdateToken(a)
       \/ CheckActive(a) \/ Revoke(a) \/ RecordRevocation(a) \/ Fail(a)
  \/ \E d \in Uuids : TokenExpires(d)

DeviceSpec == DeviceInit /\ [][DeviceNext]_deviceVars

-----------------------------------------------------------------------------
(***************************************************************************)
(* Properties                                                              *)
(***************************************************************************)

\* The limit is checked before the insert and not again: requests that run at the
\* same time may exceed it, by one each beyond the first, and never by more.  No
\* revocation goes unrecorded unless the request that made it ended half way; the
\* next attempt is refused, the device being revoked already.
DevicesAccounted ==
  /\ CountActiveByUser < MaxDevices + Cardinality(Asks)
  /\ \A d \in Uuids :
       device[d] = "revoked" =>
         d \in recorded \cup cut \/ \E a \in Asks : Doing(a, "record") /\ ask[a].uuid = d

=============================================================================
