------------------------------ MODULE WalletSignIn ------------------------------
(***************************************************************************)
(* A wallet signs in: completeWalletOnboarding verifies the proof of a     *)
(* challenge, takes the lease of its completion record, ensures the user's *)
(* smart account (SmartAccountProvisioning) and records the completion.    *)
(* A client that retries sends the same challenge again: the record makes  *)
(* one of the requests do the work, and answers the others from it.        *)
(*                                                                         *)
(* A lease that is 30 seconds old is taken over.  There is no heartbeat:   *)
(* the owner may still be at work, and learns of it when its conditional   *)
(* update finds another token.                                             *)
(***************************************************************************)
EXTENDS SmartAccountProvisioning

CONSTANTS
  SignIns,      \* the attempts made by completeWalletOnboarding
  Challenges,
  ChallengeOf,  \* ChallengeOf[r]: the challenge that request r proves
  Nobody        \* no processing token

ASSUME SignInsAssumption == SignIns \subseteq Attempts
ASSUME ChallengeOfAssumption == ChallengeOf \in [SignIns -> Challenges]
ASSUME NobodyAssumption == Nobody \notin SignIns

VARIABLES
  completion,  \* completion[c]: the record of challenge c
  stage,       \* where each request is
  holder,      \* holder[r]: the token it saw on a stale lease
  reply        \* what it answered

leaseVars == <<completion, stage, holder, reply>>
vars == <<provisioningVars, leaseVars>>

Tokens == SignIns \cup {Nobody}
Completions == [state : {"none", "processing", "completed", "failed"},
                token : Tokens, stale : BOOLEAN, pda : 0 .. MaxIndex]
Stages == {"insert", "read", "takeover", "reread", "poll", "ensure", "fail",
           "done"}
NoReply == [kind |-> "none", pda |-> 0]
Refused == [kind |-> "error", pda |-> 0]

LeaseTypeOK ==
  /\ completion \in [Challenges -> Completions]
  /\ stage \in [SignIns -> Stages]
  /\ holder \in [SignIns -> Tokens]
  /\ reply \in [SignIns -> [kind : {"none", "ok", "error"}, pda : 0 .. MaxIndex]]

SignInTypeOK == TypeOK /\ LeaseTypeOK

SignInInit ==
  /\ Init
  /\ completion = [c \in Challenges |-> [state |-> "none", token |-> Nobody,
                                         stale |-> FALSE, pda |-> 0]]
  /\ stage = [r \in SignIns |-> "insert"]
  /\ holder = [r \in SignIns |-> Nobody]
  /\ reply = [r \in SignIns |-> NoReply]

-----------------------------------------------------------------------------
MoveTo(r, s) == stage' = [stage EXCEPT ![r] = s]

Reply(r, answer) ==
  /\ MoveTo(r, "done")
  /\ reply' = [reply EXCEPT ![r] = answer]

Record(r) == completion[ChallengeOf[r]]

Update(r, value) == completion' = [completion EXCEPT ![ChallengeOf[r]] = value]

Lease(r) == [state |-> "processing", token |-> r, stale |-> FALSE, pda |-> 0]

(* beginWalletAuthCompletion: insert, read, perhaps take over, read again. *)
InsertLease(r) ==
  /\ stage[r] = "insert"
  /\ IF Record(r).state = "none" THEN Update(r, Lease(r)) ELSE UNCHANGED completion
  /\ MoveTo(r, "read")
  /\ UNCHANGED <<provisioningVars, holder, reply>>

(* What is over is answered from the record.                               *)
Replay(r) ==
  \/ /\ Record(r).state = "completed"
     /\ Reply(r, [kind |-> "ok", pda |-> Record(r).pda])
  \/ Record(r).state = "failed" /\ Reply(r, Refused)

ReadLease(r) ==
  /\ stage[r] \in {"read", "reread"}
  /\ \/ Replay(r) /\ UNCHANGED holder
     \/ /\ Record(r).state = "processing"
        /\ IF Record(r).token = r
           THEN MoveTo(r, "ensure") /\ UNCHANGED holder
           ELSE IF Record(r).stale /\ stage[r] = "read"
           THEN MoveTo(r, "takeover")
                /\ holder' = [holder EXCEPT ![r] = Record(r).token]
           ELSE MoveTo(r, "poll") /\ UNCHANGED holder
        /\ UNCHANGED reply
  /\ UNCHANGED <<provisioningVars, completion>>

(* The stale lease may have been renewed or settled since it was read.     *)
TakeOver(r) ==
  /\ stage[r] = "takeover"
  /\ IF Record(r).state = "processing" /\ Record(r).token = holder[r]
     THEN Update(r, Lease(r)) /\ MoveTo(r, "ensure")
     ELSE UNCHANGED completion /\ MoveTo(r, "reread")
  /\ holder' = [holder EXCEPT ![r] = Nobody]
  /\ UNCHANGED <<provisioningVars, reply>>

(* awaitWalletAuthCompletion.  A poll that times out gives up, even when   *)
(* its last look finds the record completed.                               *)
Poll(r) ==
  /\ stage[r] = "poll"
  /\ Replay(r)
  /\ UNCHANGED <<provisioningVars, completion, holder>>

PollTimesOut(r) ==
  /\ stage[r] = "poll"
  /\ Reply(r, Refused)
  /\ UNCHANGED <<provisioningVars, completion, holder>>

(* The owner's ensureSmartAccount runs, and returns.                       *)
EnsureStep(r) ==
  /\ stage[r] = "ensure"
  /\ Step(r)
  /\ UNCHANGED leaseVars

\* Mutant: the updates that end a lease do not ask for its token.
Unfenced(r) == TRUE

HoldsLease(r) == Record(r).token = r

Completed(r) == [state |-> "completed", token |-> Nobody, stale |-> FALSE,
                 pda |-> at[r].pda]

(* markWalletAuthCompletionCompleted.  It throws when the lease is another *)
(* request's; the call may also fail, before or after it took effect.      *)
Complete(r) ==
  /\ stage[r] = "ensure" /\ at[r].step = "ok"
  /\ \/ /\ HoldsLease(r)
        /\ Update(r, Completed(r))
        /\ \/ Reply(r, [kind |-> "ok", pda |-> at[r].pda])
           \/ MoveTo(r, "fail") /\ UNCHANGED reply
     \/ /\ MoveTo(r, "fail")
        /\ UNCHANGED <<completion, reply>>
  /\ UNCHANGED <<provisioningVars, holder>>

(* markWalletAuthCompletionFailed; its own failure is only logged.         *)
Fail(r) ==
  /\ \/ stage[r] = "fail"
     \/ stage[r] = "ensure" /\ at[r].step = "error"
  /\ IF HoldsLease(r)
     THEN Update(r, [state |-> "failed", token |-> Nobody, stale |-> FALSE, pda |-> 0])
     ELSE UNCHANGED completion
  /\ Reply(r, Refused)
  /\ UNCHANGED <<provisioningVars, holder>>

(* 30 seconds pass.                                                        *)
LeaseAges(c) ==
  /\ completion[c].state = "processing" /\ ~completion[c].stale
  /\ completion' = [completion EXCEPT ![c].stale = TRUE]
  /\ UNCHANGED <<provisioningVars, stage, holder, reply>>

SignInNext ==
  \/ \E r \in SignIns :
       \/ InsertLease(r) \/ ReadLease(r) \/ TakeOver(r)
       \/ Poll(r) \/ PollTimesOut(r)
       \/ EnsureStep(r) \/ Complete(r) \/ Fail(r)
  \/ \E a \in Attempts \ SignIns : Step(a) /\ UNCHANGED leaseVars
  \/ \E c \in Challenges : LeaseAges(c)
  \/ ChainStep /\ UNCHANGED leaseVars

SignInSpec == SignInInit /\ [][SignInNext]_vars

-----------------------------------------------------------------------------
(* Properties.                                                             *)

(* A sign-in that was answered stays answered: its challenge is recorded   *)
(* as completed with the account that was told, though other requests of   *)
(* the challenge took the lease over, gave up, or failed late.             *)
AnsweredIsCompleted ==
  \A r \in SignIns : reply[r].kind = "ok" =>
    Record(r).state = "completed" /\ Record(r).pda = reply[r].pda

=============================================================================
