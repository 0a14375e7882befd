----------------------- MODULE SmartAccountProvisioning -----------------------
(***************************************************************************)
(* How a user gets a smart account: ensureUserSmartAccount with the        *)
(* repository of the users' rows, and the program on Solana.               *)
(*                                                                         *)
(* The program numbers the settings accounts it creates 1, 2, ... for      *)
(* every application that uses it.  A row reserves a number by predicting  *)
(* that it will be the next; the create succeeds only if it is.  A row is  *)
(* "ready" once the account of its number lists the user's wallet.         *)
(*                                                                         *)
(* An account is confirmed when it is created, and final later; a fork of  *)
(* the chain drops confirmed accounts that are not final.  All reads see   *)
(* confirmed accounts, and a server remembers for a while which wallet     *)
(* controls an account (findSettingsSignerAddresses caches).               *)
(*                                                                         *)
(* An attempt is one call of ensureUserSmartAccount: by a sign-in, by a    *)
(* mobile request, or by the reconciler.  One action is one await: one SQL *)
(* statement or one call of an RPC node.  An attempt may stop anywhere.    *)
(***************************************************************************)
EXTENDS Integers, Sequences, FiniteSets

CONSTANTS
  Users,           \* each with one wallet
  Attempts,        \* calls of ensureUserSmartAccount
  UserOf,          \* UserOf[a]: whose account attempt a ensures
  Other,           \* the owner of an account another application created
  MaxIndex,        \* bound: accounts
  MaxReservations, \* how often a reservation is tried (6 in the code)
  MaxDropped,      \* bound: accounts that forks drop
  MaxFaults        \* bound: failed calls, and accounts of others

ASSUME UserOfAssumption == UserOf \in [Attempts -> Users]
ASSUME OtherAssumption == Other \notin Attempts /\ Other \notin Users
ASSUME MaxIndexAssumption == MaxIndex \in Nat \ {0}
ASSUME MaxReservationsAssumption == MaxReservations \in Nat \ {0}
ASSUME FaultsAssumption == MaxDropped \in Nat /\ MaxFaults \in Nat

VARIABLES
  chain,     \* chain[i]: who created the account number i
  final,     \* how many of the accounts are final
  inflight,  \* transactions sent that may still land
  cached,    \* cached[i]: owners of i that some server may remember
  rows,      \* rows[u]: the row of app_user_smart_accounts
  at,        \* at[a]: where attempt a is, and its local variables
  dropped,   \* the accounts that a fork has ever dropped
  faults     \* failed calls and accounts of others so far

chainVars == <<chain, final, inflight, dropped>>
provisioningVars == <<chainVars, cached, rows, at, faults>>

Indices == 1 .. MaxIndex
Owners == Users \cup {Other}
States == {"none", "provisioning", "ready", "failed"}
NoRow == [state |-> "none", pda |-> 0]

InCreate == {"create", "confirm", "finalize", "check", "verify", "markReady"}
Promoting == {"promote", "promoteReserved", "promoteFailed"}
Steps == {"find", "markPromoted", "reserve", "insert", "existing", "replace",
          "markFailed", "ok", "error"} \cup InCreate \cup Promoting

(* An attempt: its step, the row as it last knew it, the number it is      *)
(* about to reserve, the reservations it has tried, and how often it has   *)
(* replaced a number that was taken.  At "ok", pda is what it returns.     *)
Local == [step : Steps, state : States, pda : 0 .. MaxIndex,
          next : 0 .. MaxIndex, tries : 0 .. MaxReservations - 1, round : 0 .. 1]

Start(step, pda) == [step |-> step, state |-> "none", pda |-> pda,
                     next |-> 0, tries |-> 0, round |-> 0]

TypeOK ==
  /\ chain \in Seq(Attempts \cup {Other}) /\ Len(chain) <= MaxIndex
  /\ final \in 0 .. Len(chain)
  /\ inflight \in SUBSET [by : Attempts, pda : Indices]
  /\ cached \in [Indices -> SUBSET Owners]
  /\ rows \in [Users -> [state : States, pda : 0 .. MaxIndex]]
  /\ at \in [Attempts -> Local]
  /\ dropped \in SUBSET Indices
  /\ faults \in 0 .. MaxFaults

Init ==
  /\ chain = <<>> /\ final = 0 /\ inflight = {}
  /\ cached = [i \in Indices |-> {}]
  /\ rows = [u \in Users |-> NoRow]
  /\ at = [a \in Attempts |-> Start("find", 0)]
  /\ dropped = {} /\ faults = 0

-----------------------------------------------------------------------------
(* The chain.                                                              *)

Created == 1 .. Len(chain)
OwnerOf(i) == IF chain[i] = Other THEN Other ELSE UserOf[chain[i]]

(* The program creates an account only under the next number.              *)
Lands(t) ==
  /\ t \in inflight
  /\ t.pda = Len(chain) + 1
  /\ chain' = Append(chain, t.by)
  /\ inflight' = inflight \ {t}
  /\ UNCHANGED <<final, dropped, cached, rows, at, faults>>

OtherCreates ==
  /\ Len(chain) < MaxIndex
  /\ faults < MaxFaults /\ faults' = faults + 1
  /\ chain' = Append(chain, Other)
  /\ UNCHANGED <<final, inflight, dropped, cached, rows, at>>

Finalizes ==
  /\ final < Len(chain)
  /\ final' = final + 1
  /\ UNCHANGED <<chain, inflight, dropped, cached, rows, at, faults>>

Forks ==
  /\ Cardinality(dropped) < MaxDropped
  /\ \E n \in final .. Len(chain) - 1 :
       /\ chain' = SubSeq(chain, 1, n)
       /\ dropped' = dropped \cup (n + 1 .. Len(chain))
  /\ UNCHANGED <<final, inflight, cached, rows, at, faults>>

(* findSettingsSignerAddresses: who controls the account of attempt a's    *)
(* number.  An account that exists is remembered, one that does not is     *)
(* not.  A memory expires; since the server that answers may be one that   *)
(* has none, the model need not forget.                                    *)
Answers(i) == cached[i] \cup (IF i \in Created THEN {OwnerOf(i)} ELSE {})

Remembered(i, owner) == [cached EXCEPT ![i] = @ \cup {owner}]

\* Mutant: an account that exists is taken for the user's.
SeesAccount(a) == Answers(at[a].pda) # {} /\ UNCHANGED cached

SeesWallet(a) ==
  /\ UserOf[a] \in Answers(at[a].pda)
  /\ cached' = Remembered(at[a].pda, UserOf[a])

SeesOther(a) ==
  \E owner \in Answers(at[a].pda) \ {UserOf[a]} :
    cached' = Remembered(at[a].pda, owner)

SeesNothing(a) == at[a].pda \notin Created /\ UNCHANGED cached

-----------------------------------------------------------------------------
(* Steps of an attempt.                                                    *)

Goto(a, step) == at' = [at EXCEPT ![a].step = step]

Returns(a, pda) == at' = [at EXCEPT ![a] = Start("ok", pda)]
Fails(a) == at' = [at EXCEPT ![a] = Start("error", 0)]

(* The row still carries the number the attempt works on.                  *)
RowOf(a) == rows[UserOf[a]]
RowIsMine(a) == RowOf(a).state # "none" /\ RowOf(a).pda = at[a].pda

(* The unique index on settings_pda.                                       *)
Taken(a) == \E u \in Users \ {UserOf[a]} :
              rows[u].state # "none" /\ rows[u].pda = at[a].next

Find(a) ==
  /\ at[a].step = "find"
  /\ at' = [at EXCEPT ![a].state = RowOf(a).state, ![a].pda = RowOf(a).pda,
              ![a].step = IF RowOf(a).state = "none" THEN "reserve" ELSE "promote"]
  /\ UNCHANGED <<chainVars, cached, rows, faults>>

(* maybePromoteRecord: what the chain says of the number decides.          *)
PromoteOwned(a) ==
  /\ at[a].step \in Promoting
  /\ SeesWallet(a)
  /\ IF at[a].state = "ready" THEN Returns(a, at[a].pda) ELSE Goto(a, "markPromoted")
  /\ UNCHANGED <<chainVars, rows, faults>>

(* The number belongs to somebody else: reserve another.  A sponsorship    *)
(* that failed does so once.                                               *)
PromoteMismatch(a) ==
  /\ at[a].step \in Promoting
  /\ SeesOther(a)
  /\ IF at[a].step # "promoteFailed" THEN Goto(a, "reserve")
     ELSE IF at[a].round = 0
     THEN at' = [at EXCEPT ![a].step = "reserve", ![a].round = 1]
     ELSE Goto(a, "markFailed")
  /\ UNCHANGED <<chainVars, rows, faults>>

\* Mutant: a number without an account is given up for another.
PromoteMissingReplaces(a) ==
  /\ at[a].step \in Promoting
  /\ SeesNothing(a)
  /\ Goto(a, IF at[a].step = "promoteFailed" THEN "markFailed" ELSE "reserve")
  /\ UNCHANGED <<chainVars, rows, faults>>

PromoteMissing(a) ==
  /\ at[a].step \in Promoting
  /\ SeesNothing(a)
  /\ \/ at[a].step = "promote" /\ Goto(a, "create")
     \/ at[a].step = "promoteReserved" /\ Goto(a, "reserve")
     \/ at[a].step = "promoteFailed" /\ Goto(a, "markFailed")
  /\ UNCHANGED <<chainVars, rows, faults>>

(* markAppUserSmartAccountReady and ...Failed: conditional updates.        *)
MarkPromoted(a) ==
  /\ at[a].step = "markPromoted"
  /\ IF RowIsMine(a)
     THEN rows' = [rows EXCEPT ![UserOf[a]].state = "ready"] /\ Returns(a, at[a].pda)
     ELSE UNCHANGED rows /\ Fails(a)
  /\ UNCHANGED <<chainVars, cached, faults>>

MarkFailed(a) ==
  /\ at[a].step = "markFailed"
  /\ rows' = IF RowIsMine(a) THEN [rows EXCEPT ![UserOf[a]].state = "failed"]
             ELSE rows
  /\ Fails(a)
  /\ UNCHANGED <<chainVars, cached, faults>>

-----------------------------------------------------------------------------
(* reserveProvisioningRecord.                                              *)

ReadIndex(a) ==
  /\ at[a].step = "reserve"
  /\ Len(chain) < MaxIndex
  /\ at' = [at EXCEPT ![a].next = Len(chain) + 1, ![a].step = "insert"]
  /\ UNCHANGED <<chainVars, cached, rows, faults>>

Adopts(a, step, row) ==
  at' = [at EXCEPT ![a] = [step |-> step, state |-> row.state, pda |-> row.pda,
                           next |-> 0, tries |-> 0, round |-> at[a].round]]

Reserved(a) ==
  LET row == [state |-> "provisioning", pda |-> at[a].next]
  IN  /\ rows' = [rows EXCEPT ![UserOf[a]] = row]
      /\ Adopts(a, "create", row)

\* Mutant: one reservation too many.
ConflictOnceMore(a) ==
  /\ UNCHANGED rows
  /\ IF at[a].tries < MaxReservations
     THEN at' = [at EXCEPT ![a].tries = @ + 1, ![a].step = "reserve"]
     ELSE Fails(a)

(* Another row has the number: wait and look again, or give up.            *)
Conflict(a) ==
  /\ UNCHANGED rows
  /\ IF at[a].tries + 1 < MaxReservations
     THEN at' = [at EXCEPT ![a].tries = @ + 1, ![a].step = "reserve"]
     ELSE Fails(a)

(* A user without a row gets one; a row that is known is to be replaced.   *)
Insert(a) ==
  /\ at[a].step = "insert"
  /\ \/ /\ RowOf(a).state # "none"
        /\ Goto(a, IF at[a].state # "none" THEN "replace" ELSE "existing")
        /\ UNCHANGED rows
     \/ RowOf(a).state = "none" /\ ~Taken(a) /\ Reserved(a)
     \/ RowOf(a).state = "none" /\ Taken(a) /\ Conflict(a)
  /\ UNCHANGED <<chainVars, cached, faults>>

(* The user's row appeared since it was looked for.                        *)
Existing(a) ==
  /\ at[a].step = "existing"
  /\ IF RowOf(a).state = "failed" THEN Fails(a)
     ELSE Adopts(a, IF RowOf(a).state = "ready" THEN "promoteReserved" ELSE "create",
                 RowOf(a))
  /\ UNCHANGED <<chainVars, cached, rows, faults>>

Replace(a) ==
  /\ at[a].step = "replace"
  /\ \/ RowIsMine(a) /\ ~Taken(a) /\ Reserved(a)
     \/ RowIsMine(a) /\ Taken(a) /\ Conflict(a)
     \/ ~RowIsMine(a) /\ Fails(a) /\ UNCHANGED rows
  /\ UNCHANGED <<chainVars, cached, faults>>

-----------------------------------------------------------------------------
(* sponsorRecord with createSponsoredSmartAccount.                         *)

Transaction(a) == [by |-> a, pda |-> at[a].pda]
IsCreated(a) == at[a].pda \in Created /\ chain[at[a].pda] = a

Send(a) ==
  /\ at[a].step = "create"
  /\ inflight' = inflight \cup {Transaction(a)}
  /\ Goto(a, "confirm")
  /\ UNCHANGED <<chain, final, dropped, cached, rows, faults>>

Confirmed(a) ==
  /\ at[a].step = "confirm"
  /\ IsCreated(a)
  /\ Goto(a, "finalize")
  /\ UNCHANGED <<chainVars, cached, rows, faults>>

(* The program rejects a create that is not for the next number.           *)
Rejected(a) ==
  /\ at[a].step = "confirm"
  /\ ~IsCreated(a) /\ at[a].pda # Len(chain) + 1
  /\ inflight' = inflight \ {Transaction(a)}
  /\ Goto(a, "promoteFailed")
  /\ UNCHANGED <<chain, final, dropped, cached, rows, faults>>

(* waitForFinalizedSignature.  A transaction that a fork has dropped does  *)
(* not become final.                                                       *)
Final(a) ==
  /\ at[a].step = "finalize"
  /\ IsCreated(a) /\ at[a].pda <= final
  /\ Goto(a, "check")
  /\ UNCHANGED <<chainVars, cached, rows, faults>>

NeverFinal(a) ==
  /\ at[a].step = "finalize"
  /\ ~IsCreated(a)
  /\ Goto(a, "promoteFailed")
  /\ UNCHANGED <<chainVars, cached, rows, faults>>

(* The create reads the signers, and its caller reads them again.          *)
CheckSigners(a) ==
  /\ at[a].step \in {"check", "verify"}
  /\ \/ /\ SeesWallet(a)
        /\ Goto(a, IF at[a].step = "check" THEN "verify" ELSE "markReady")
     \/ /\ SeesOther(a)
        /\ Goto(a, IF at[a].step = "check" THEN "promoteFailed" ELSE "markFailed")
  /\ UNCHANGED <<chainVars, rows, faults>>

MarkReady(a) ==
  /\ at[a].step = "markReady"
  /\ IF RowIsMine(a)
     THEN rows' = [rows EXCEPT ![UserOf[a]].state = "ready"] /\ Returns(a, at[a].pda)
     ELSE UNCHANGED rows /\ Goto(a, "promoteFailed")
  /\ UNCHANGED <<chainVars, cached, faults>>

(* A call of the database or of an RPC node fails or times out.  Within    *)
(* the sponsorship the failure is caught and the chain is asked; a         *)
(* transaction that was sent may still land.                               *)
Outage(a) ==
  /\ faults < MaxFaults /\ faults' = faults + 1
  /\ at[a].step \notin {"ok", "error"}
  /\ IF at[a].step \in InCreate THEN Goto(a, "promoteFailed") ELSE Fails(a)
  /\ UNCHANGED <<chainVars, cached, rows>>

Step(a) ==
  \/ Find(a)
  \/ PromoteOwned(a) \/ PromoteMismatch(a) \/ PromoteMissing(a)
  \/ MarkPromoted(a) \/ MarkFailed(a)
  \/ ReadIndex(a) \/ Insert(a) \/ Existing(a) \/ Replace(a)
  \/ Send(a) \/ Confirmed(a) \/ Rejected(a)
  \/ Final(a) \/ NeverFinal(a) \/ CheckSigners(a)
  \/ MarkReady(a)
  \/ Outage(a)

ChainStep ==
  \/ \E t \in inflight : Lands(t)
  \/ OtherCreates \/ Finalizes \/ Forks

-----------------------------------------------------------------------------
(* Properties.                                                             *)

Owns(u, i) == i \in Created /\ OwnerOf(i) = u

(* A row is ready only for an account the user's wallet controls, whatever *)
(* attempts, reconcilers and other users race; but for what a fork undid.  *)
ReadyIsOwned ==
  \A u \in Users : rows[u].state = "ready" /\ rows[u].pda \notin dropped
                     => Owns(u, rows[u].pda)

(* Retries, races and lost answers never sponsor two accounts for one      *)
(* user; but for what a fork undid.                                        *)
OneAccountPerUser ==
  \A u \in Users, i, j \in Created \ dropped : Owns(u, i) /\ Owns(u, j) => i = j

(* onchain.ts: a creation is not reported successful before it is final,   *)
(* so that no ready row ends with an account that others control.          *)
ReadyIsControlled ==
  \A u \in Users : rows[u].state = "ready" /\ rows[u].pda \in Created
                     => OwnerOf(rows[u].pda) = u

=============================================================================
