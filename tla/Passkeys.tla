------------------------------ MODULE Passkeys ------------------------------
(***************************************************************************)
(* The passkeys of one user: the challenges of registration, login and     *)
(* step-up, begun by one request and finished by another, and the rule     *)
(* that a further passkey takes a step-up.  What an authenticator signs is *)
(* abstracted to a signature that is right or wrong.                       *)
(***************************************************************************)
EXTENDS Naturals, FiniteSets

CONSTANTS
  Ceremonies, \* concurrent executions of the handlers
  Challenges, \* rows of passkey_challenges, over time
  Keys        \* authenticators

Types == {"registration", "login", "step_up"}

VARIABLES
  creds,     \* rows of passkey_credentials
  challenge, \* unconsumed, unexpired challenges by type
  ceremony,  \* the requests
  finished   \* history: how many ceremonies each challenge has carried

passkeyVars == <<creds, challenge, ceremony, finished>>

Still == [pc |-> "idle"]
NoChallenge == "none"
NoKey == "none"

PasskeyTypeOK ==
  /\ creds \subseteq Keys
  /\ challenge \in [Challenges -> {"none"} \cup Types]
  /\ ceremony \in [Ceremonies -> {Still} \cup
        [pc : {"save", "gate", "gateFactor", "consume", "lookup", "use", "create"},
         type : Types, ch : {NoChallenge} \cup Challenges, key : {NoKey} \cup Keys,
         elevated : BOOLEAN, crossed : BOOLEAN]]
  /\ finished \in [Challenges -> Nat]

PasskeyInit ==
  /\ creds = {}
  /\ challenge = [h \in Challenges |-> "none"]
  /\ ceremony = [x \in Ceremonies |-> Still]
  /\ finished = [h \in Challenges |-> 0]

-----------------------------------------------------------------------------
In(x, pc) == ceremony[x].pc = pc
GoOn(x, pc) == ceremony' = [ceremony EXCEPT ![x].pc = pc]
End(x) == ceremony' = [ceremony EXCEPT ![x] = Still]
stored == <<creds, challenge, finished>>

Enter(x, pc, type, h, up) ==
  /\ In(x, "idle")
  /\ ceremony' = [ceremony EXCEPT ![x] =
        [pc |-> pc, type |-> type, ch |-> h, key |-> NoKey, elevated |-> up,
         crossed |-> FALSE]]
  /\ UNCHANGED stored

\* A ceremony that finds passkeys switched off begins nothing.
BeginRegistration(x) == Enter(x, "save", "registration", NoChallenge, FALSE)

BeginLogin(x) == Enter(x, "save", "login", NoChallenge, FALSE)

\* A step-up needs a passkey.
BeginStepUp(x) == creds # {} /\ Enter(x, "save", "step_up", NoChallenge, FALSE)

SaveChallenge(x) ==
  /\ In(x, "save")
  /\ \E h \in Challenges :
       /\ challenge[h] = "none"
       /\ \A y \in Ceremonies : ceremony[y] # Still => ceremony[y].ch # h
       /\ challenge' = [challenge EXCEPT ![h] = ceremony[x].type]
       /\ finished' = [finished EXCEPT ![h] = 0]
  /\ End(x)
  /\ UNCHANGED creds

\* The route passes RequirePasskeyRegistrationStepUp first; its caller may or may
\* not hold a step-up token.
FinishRegistration(x, h) ==
  \E up \in BOOLEAN : Enter(x, "gate", "registration", h, up)

FinishLogin(x, h) == Enter(x, "consume", "login", h, FALSE)

FinishStepUp(x, h) == Enter(x, "consume", "step_up", h, FALSE)

\* Mutant: only the second factor calls for a step-up.
FactorOnly(x) ==
  /\ In(x, "gate")
  /\ GoOn(x, "gateFactor")
  /\ UNCHANGED stored

RequireStepUpForMore(x) ==
  /\ In(x, "gate")
  /\ IF creds = {} THEN GoOn(x, "gateFactor")
     ELSE IF ceremony[x].elevated THEN GoOn(x, "consume") ELSE End(x)
  /\ UNCHANGED stored

\* TwoFactor.Status, which other requests may change at any time.
FactorEnabled == BOOLEAN

RequireStepUpForFactor(x) ==
  /\ In(x, "gateFactor")
  /\ \E enabled \in FactorEnabled :
       IF ~enabled \/ ceremony[x].elevated THEN GoOn(x, "consume") ELSE End(x)
  /\ UNCHANGED stored

\* One update decides who gets the challenge: id, type and owner must match.
Matches(x) == challenge[ceremony[x].ch] = ceremony[x].type

\* The setting passkey_enabled, which an administrator may change at any time; one
\* that cannot be read counts as its default, off.
PasskeyEnabled == BOOLEAN

ConsumeChallenge(x) ==
  /\ In(x, "consume")
  /\ \E allowed \in PasskeyEnabled :
       IF allowed /\ Matches(x)
         THEN /\ challenge' = [challenge EXCEPT ![ceremony[x].ch] = "none"]
              /\ GoOn(x, "lookup")
         ELSE End(x) /\ UNCHANGED challenge
  /\ UNCHANGED <<creds, finished>>

\* What the webauthn library makes of the answer, given the configured origins and
\* relying party: the challenge is signed by the key, or it is not.
Signed == BOOLEAN

\* The signature is checked, and the credential is looked up by its id: a new one
\* must be unknown, a used one known.
LookUp(x) ==
  /\ In(x, "lookup")
  /\ \E signed \in Signed, k \in Keys :
       IF signed /\ (k \in creds <=> ceremony[x].type # "registration")
         THEN IF ceremony[x].type = "registration"
                THEN ceremony' = [ceremony EXCEPT ![x].pc = "create", ![x].key = k]
                ELSE GoOn(x, "use")
         ELSE End(x)
  /\ UNCHANGED stored

Finish(x) == finished' = [finished EXCEPT ![ceremony[x].ch] = @ + 1]

\* The unique index on credential_id decides between two registrations.
CreateCredential(x) ==
  /\ In(x, "create")
  /\ IF ceremony[x].key \in creds
       THEN End(x) /\ UNCHANGED <<creds, finished>>
       ELSE /\ creds' = creds \cup {ceremony[x].key}
            /\ Finish(x)
            /\ ceremony' = [y \in Ceremonies |->
                 IF y = x THEN Still
                 ELSE IF ceremony[y].pc \in {"gateFactor", "consume", "lookup", "create"}
                      /\ ceremony[y].type = "registration"
                 THEN [ceremony[y] EXCEPT !.crossed = TRUE]
                 ELSE ceremony[y]]
  /\ UNCHANGED challenge

\* UpdateCredentialAfterUse, which does not mind that the row is gone, and the
\* session or step-up token that follows.
UseCredential(x) ==
  /\ In(x, "use")
  /\ Finish(x)
  /\ End(x)
  /\ UNCHANGED <<creds, challenge>>

\* The route takes a step-up token.
DeleteCredential(k) ==
  /\ k \in creds
  /\ creds' = creds \ {k}
  /\ UNCHANGED <<challenge, ceremony, finished>>

ChallengeExpires(h) ==
  /\ challenge[h] # "none"
  /\ challenge' = [challenge EXCEPT ![h] = "none"]
  /\ UNCHANGED <<creds, ceremony, finished>>

\* A statement fails, the client goes away or the process stops.
Drop(x) ==
  /\ ~In(x, "idle")
  /\ End(x)
  /\ UNCHANGED stored

PasskeyNext ==
  \/ \E x \in Ceremonies : BeginRegistration(x) \/ BeginLogin(x) \/ BeginStepUp(x)
  \/ \E x \in Ceremonies, h \in Challenges :
       FinishRegistration(x, h) \/ FinishLogin(x, h) \/ FinishStepUp(x, h)
  \/ \E x \in Ceremonies :
       \/ SaveChallenge(x) \/ RequireStepUpForMore(x) \/ RequireStepUpForFactor(x)
       \/ ConsumeChallenge(x) \/ LookUp(x) \/ CreateCredential(x)
       \/ UseCredential(x) \/ Drop(x)
  \/ \E k \in Keys : DeleteCredential(k)
  \/ \E h \in Challenges : ChallengeExpires(h)

PasskeySpec == PasskeyInit /\ [][PasskeyNext]_passkeyVars

-----------------------------------------------------------------------------
(***************************************************************************)
(* Properties                                                              *)
(***************************************************************************)

\* A challenge carries one ceremony, whichever requests try to finish it at once.
ChallengeOnce == \A h \in Challenges : finished[h] <= 1

\* A passkey joins another one without a step-up only when the two registrations
\* overlapped: the second had passed its check before the first was stored.
FurtherKeysTakeStepUp ==
  [][\A x \in Ceremonies :
       creds # {} /\ creds' # creds /\ In(x, "create") /\ ~In(x, "create")'
         /\ ceremony[x].key \in creds' \ creds
       => ceremony[x].elevated \/ ceremony[x].crossed]_passkeyVars

=============================================================================
