---------------------------- MODULE LeaveStore -----------------------------
(***************************************************************************)
(* The SQLite database as TypeORM shows it to the services: the tables     *)
(* balances and time_off_requests, and who still holds the current version *)
(* of a balance row.                                                       *)
(*                                                                         *)
(* A service reads an entity with findOne, awaits, and writes it back with *)
(* save.  save writes every column of the entity it is given, the columns  *)
(* its caller never touched included, so a caller whose entity is stale    *)
(* takes other writers' changes back.                                      *)
(*                                                                         *)
(* OptimisticLock says whether save also checks the version it read.       *)
(* reserveDays catches OptimisticLockVersionMismatch and retries, but save *)
(* never raises it: TypeORM increments a @VersionColumn on save, and       *)
(* compares it only in a find that asks for an optimistic lock.  FALSE is  *)
(* the program as built; TRUE is the save its retry loop is written for.   *)
(*                                                                         *)
(* A version is only ever compared for equality with the current one, so   *)
(* it is kept as fresh[k]: the readers whose entity for k is current.      *)
(***************************************************************************)
EXTENDS LeaveDomain

CONSTANTS
    Readers,            \* the calls whose entities' versions are compared
    OptimisticLock,     \* whether a save of a stale entity fails
    DbMayFail,          \* whether a statement may fail (disk full, locked)
    InitBalance,        \* the balances table at the start, by key
    MaxCrashes          \* bound on the restarts of the service

\* reservedDays is 0 at first, and every write of it is rounded.
ASSUME StoreAssumption ==
    /\ OptimisticLock \in BOOLEAN
    /\ DbMayFail \in BOOLEAN
    /\ DOMAIN InitBalance \subseteq Keys
    /\ InitBalance \in [DOMAIN InitBalance -> Balance]
    /\ \A k \in DOMAIN InitBalance : InitBalance[k].reserved % Unit = 0
    /\ MaxCrashes \in Nat

VARIABLES
    balance,    \* the balances table: a function on the keys that have a row
    fresh,      \* fresh[k]: the readers whose entity for k is current
    status,     \* the time_off_requests table: status[r], "none" without a row
    crashes     \* restarts of the service so far

storeVars == <<balance, fresh, status, crashes>>

StoreInit ==
    /\ balance = InitBalance
    /\ fresh   = [k \in Keys |-> {}]
    /\ status  = [r \in Requests |-> "none"]
    /\ crashes = 0

\* Type of the two tables.
StoreTypeOK ==
    /\ DOMAIN balance \subseteq Keys
    /\ balance \in [DOMAIN balance -> Balance]
    /\ fresh \in [Keys -> SUBSET Readers]
    /\ status \in [Requests -> Status]
    /\ crashes \in 0 .. MaxCrashes

HasBalance(k) == k \in DOMAIN balance

\* findOne by the call t, which will save the entity later.
Read(t, k) ==
    /\ fresh' = [fresh EXCEPT ![k] = @ \cup ({t} \cap Readers)]
    /\ UNCHANGED <<balance, status, crashes>>

\* save of an entity for k, which has a row.  TypeORM issues no UPDATE, and so
\* no new version, when no column differs.
Save(k, row) ==
    /\ balance' = [balance EXCEPT ![k] = row]
    /\ fresh' = IF row = balance[k] THEN fresh
                                    ELSE [fresh EXCEPT ![k] = {}]
    /\ UNCHANGED <<status, crashes>>

\* No lock check at all.
MaySaveStale(t, k) == TRUE

\* The lock check the retry loop of reserveDays is written for.
MaySave(t, k) == OptimisticLock => t \in fresh[k]

\* update of the status column of one request.
SetStatus(r, s) ==
    /\ status' = [status EXCEPT ![r] = s]
    /\ UNCHANGED <<balance, fresh, crashes>>

\* The unique index on idempotencyKey refuses a second row for the same key.
KeyTaken(r) ==
    \E q \in Requests : /\ status[q] # "none"
                        /\ IdempotencyKey[q] = IdempotencyKey[r]

\* The service restarts: the tables stay, every entity in memory is gone.
StoreCrash ==
    /\ crashes < MaxCrashes
    /\ crashes' = crashes + 1
    /\ fresh' = [k \in Keys |-> {}]
    /\ UNCHANGED <<balance, status>>
=============================================================================
