---------------------------- MODULE AccountLedger ----------------------------
(***************************************************************************)
(* Opening the private ledger of a verified account:                       *)
(* internal/store/account_key.go and internal/store/account_ledger.go.     *)
(*                                                                         *)
(* Several processes call OpenCoupangAccountLedger on one state directory, *)
(* without any lock: they agree through files that are published complete, *)
(* by a hard link that never replaces.  One action is one look at the file *)
(* system or one publication.  The user may lose, damage or restore the    *)
(* key file and copy databases around, but only while no call is running.  *)
(*                                                                         *)
(* KeyLost, RenamedKey, NotYetBound and RenamedLedger are not used by the  *)
(* specification: each is a plausible mistake in the operator next to it.  *)
(***************************************************************************)
EXTENDS FiniteSets

CONSTANTS
    Caller,     \* concurrent callers of OpenCoupangAccountLedger
    Subject,    \* verified source subjects
    Key,        \* the random keys that may be generated
    Missing,    \* no such file, or no binding in it
    Damaged     \* a key file that is not a valid record

VARIABLES
    keyFile,    \* account-namespace.key
    generated,  \* keys that have been generated: random, so never again
    dirs,       \* the account directories under accounts/
    ledger,     \* ledger.sqlite3 of each namespace
    call,       \* locals of each call
    \* For the properties only.
    lost,       \* the user has lost or damaged the key at some time
    copied      \* the user has copied a database to some ledger path

files == <<keyFile, generated, dirs, ledger>>
accountVars == <<keyFile, generated, dirs, ledger, call, lost, copied>>

-----------------------------------------------------------------------------

\* DeriveCoupangAccountNamespace: a keyed hash tells both its inputs apart.
Namespace == [key: Key, subject: Subject]

\* A database: its account_ledger_binding row, whether this program has ever
\* written it (created or migrated), whether it holds synchronised history.
Database == [binding: Namespace \cup {Missing}, written: BOOLEAN, history: BOOLEAN]

ASSUME FileAssumption ==
    /\ Missing # Damaged
    /\ Missing \notin Key /\ Damaged \notin Key
    /\ Missing \notin Namespace \cup Database
    /\ Subject # {}

Outcome == {"none", "failed", "recovery_required", "unbound", "mismatch"}

\* A call: where it is, its subject, the key it has read, its temporary
\* database, and how its last run ended.
Call == [pc: {"idle", "read_key", "list", "read_again", "publish_key", "read_published",
              "mkdir", "look", "initialize", "bind", "publish_ledger", "validate",
              "open", "opened"},
         subject: Subject, key: Key \cup {Missing},
         temp: Database \cup {Missing}, outcome: Outcome]

\* The namespace of a call that knows the key.
Ns(p) == [key |-> call[p].key, subject |-> call[p].subject]

Quiet == \A p \in Caller : call[p].pc = "idle"

Fresh(outcome) ==
    [pc |-> "idle", subject |-> CHOOSE s \in Subject : TRUE, key |-> Missing,
     temp |-> Missing, outcome |-> outcome]

\* A new installation.
AccountInit ==
    /\ keyFile = Missing
    /\ generated = {}
    /\ dirs = {}
    /\ ledger = [n \in Namespace |-> Missing]
    /\ call = [p \in Caller |-> Fresh("none")]
    /\ lost = FALSE
    /\ copied = FALSE

Becomes(p, c) == call' = [call EXCEPT ![p] = c]

Goto(p, stage) == Becomes(p, [call[p] EXCEPT !.pc = stage])

End(p, outcome) == Becomes(p, Fresh(outcome))

-----------------------------------------------------------------------------
(* localAccountKey.                                                        *)

StartAccountOpen(p) ==
    /\ call[p].pc = "idle"
    /\ \E s \in Subject :
           Becomes(p, [Fresh("none") EXCEPT !.pc = "read_key", !.subject = s])
    /\ UNCHANGED <<files, lost, copied>>

\* readAccountKey: the complete record, a damaged one, or no file; what is done
\* without a file depends on the caller.
ReadKey(p, WithoutFile) ==
    \/ /\ keyFile \in Key
       /\ Becomes(p, [call[p] EXCEPT !.pc = "mkdir", !.key = keyFile])
    \/ /\ keyFile = Damaged
       /\ End(p, "recovery_required")
    \/ /\ keyFile = Missing
       /\ WithoutFile

FindKey(p) ==
    /\ call[p].pc = "read_key"
    /\ ReadKey(p, Goto(p, "list"))
    /\ UNCHANGED <<files, lost, copied>>

\* Without a key, any account directory means that there was one.
ListAccounts(p) ==
    /\ call[p].pc = "list"
    /\ Goto(p, IF dirs = {} THEN "publish_key" ELSE "read_again")
    /\ UNCHANGED <<files, lost, copied>>

\* The key may have been published since the first look.
KeyLost(p) == End(p, "recovery_required")
SecondLook(p) == ReadKey(p, End(p, "recovery_required"))

FindKeyAgain(p) ==
    /\ call[p].pc = "read_again"
    /\ SecondLook(p)
    /\ UNCHANGED <<files, lost, copied>>

\* The key file after publishAccountKey links a complete temporary record.
RenamedKey(k) == k
LinkedKey(k) == IF keyFile = Missing THEN k ELSE keyFile

PublishKey(p) ==
    /\ call[p].pc = "publish_key"
    /\ \E k \in Key \ generated :
           /\ generated' = generated \cup {k}
           /\ keyFile' = LinkedKey(k)
    /\ Goto(p, "read_published")
    /\ UNCHANGED <<dirs, ledger, lost, copied>>

ReadPublishedKey(p) ==
    /\ call[p].pc = "read_published"
    /\ ReadKey(p, End(p, "failed"))
    /\ UNCHANGED <<files, lost, copied>>

-----------------------------------------------------------------------------
(* OpenAccountLedger.                                                      *)

MakeDirectory(p) ==
    /\ call[p].pc = "mkdir"
    /\ dirs' = dirs \cup {Ns(p)}
    /\ Goto(p, "look")
    /\ UNCHANGED <<keyFile, generated, ledger, lost, copied>>

LookForLedger(p) ==
    /\ call[p].pc = "look"
    /\ Goto(p, IF ledger[Ns(p)] = Missing THEN "initialize" ELSE "validate")
    /\ UNCHANGED <<files, lost, copied>>

\* A temporary database of its own is created, migrated, bound and closed.
InitializeTemp(p) ==
    /\ call[p].pc = "initialize"
    /\ Becomes(p, [call[p] EXCEPT !.pc = "bind",
                                   !.temp = [binding |-> Missing, written |-> TRUE,
                                             history |-> FALSE]])
    /\ UNCHANGED <<files, lost, copied>>

\* bindAccountNamespace.
NotYetBound(p) == call[p].temp
Bound(p) == [call[p].temp EXCEPT !.binding = Ns(p)]

BindTemp(p) ==
    /\ call[p].pc = "bind"
    /\ Becomes(p, [call[p] EXCEPT !.pc = "publish_ledger", !.temp = Bound(p)])
    /\ UNCHANGED <<files, lost, copied>>

\* The ledger after the temporary database is linked to its path.
RenamedLedger(p) == call[p].temp
LinkedLedger(p) == IF ledger[Ns(p)] = Missing THEN call[p].temp ELSE ledger[Ns(p)]

PublishLedger(p) ==
    /\ call[p].pc = "publish_ledger"
    /\ ledger' = [ledger EXCEPT ![Ns(p)] = LinkedLedger(p)]
    /\ Becomes(p, [call[p] EXCEPT !.pc = "validate", !.temp = Missing])
    /\ UNCHANGED <<keyFile, generated, dirs, lost, copied>>

\* The read-only look at the binding before anything may write the file.
OwnBinding(p) == ledger[Ns(p)].binding = Ns(p)

Validate(p) ==
    /\ call[p].pc = "validate"
    /\ \/ ledger[Ns(p)] = Missing /\ End(p, "failed")
       \/ /\ ledger[Ns(p)] # Missing
          /\ \/ OwnBinding(p) /\ Goto(p, "open")
             \/ /\ ~OwnBinding(p)
                /\ End(p, IF ledger[Ns(p)].binding = Missing THEN "unbound" ELSE "mismatch")
    /\ UNCHANGED <<files, lost, copied>>

\* Open migrates the database: from here on this program writes it.
OpenLedger(p) ==
    /\ call[p].pc = "open"
    /\ ledger' = [ledger EXCEPT ![Ns(p)].written = TRUE]
    /\ Goto(p, "opened")
    /\ UNCHANGED <<keyFile, generated, dirs, lost, copied>>

\* The caller synchronises into the ledger it got, and closes it some day.
UseLedger(p) ==
    /\ call[p].pc = "opened"
    /\ ledger' = [ledger EXCEPT ![Ns(p)].history = TRUE]
    /\ UNCHANGED <<keyFile, generated, dirs, call, lost, copied>>

CloseAccountLedger(p) ==
    /\ call[p].pc = "opened"
    /\ End(p, "none")
    /\ UNCHANGED <<files, lost, copied>>

\* A file operation fails, the context ends, or the process exits.
Fail(p) ==
    /\ call[p].pc # "idle"
    /\ End(p, "failed")
    /\ UNCHANGED <<files, lost, copied>>

-----------------------------------------------------------------------------
(* What the user does with the files while no call is running.             *)

LoseKey ==
    /\ Quiet
    /\ keyFile # Missing
    /\ keyFile' \in {Missing, Damaged}
    /\ lost' = TRUE
    /\ UNCHANGED <<generated, dirs, ledger, call, copied>>

\* "restore the original local account namespace key"
RestoreKey ==
    /\ Quiet
    /\ \E d \in dirs : keyFile' = d.key
    /\ UNCHANGED <<generated, dirs, ledger, call, lost, copied>>

\* A backup of the same account, the legacy database, or another account's.
CopyDatabase ==
    /\ Quiet
    /\ \E d \in dirs, b \in Namespace \cup {Missing} :
           ledger' = [ledger EXCEPT ![d] = [binding |-> b, written |-> FALSE,
                                            history |-> TRUE]]
    /\ copied' = TRUE
    /\ UNCHANGED <<keyFile, generated, dirs, call, lost>>

Step(p) ==
    \/ StartAccountOpen(p) \/ FindKey(p) \/ ListAccounts(p) \/ FindKeyAgain(p)
    \/ PublishKey(p) \/ ReadPublishedKey(p)
    \/ MakeDirectory(p) \/ LookForLedger(p)
    \/ InitializeTemp(p) \/ BindTemp(p) \/ PublishLedger(p)
    \/ Validate(p) \/ OpenLedger(p) \/ UseLedger(p) \/ CloseAccountLedger(p) \/ Fail(p)

AccountNext ==
    \/ \E p \in Caller : Step(p)
    \/ LoseKey \/ RestoreKey \/ CopyDatabase

AccountSpec == AccountInit /\ [][AccountNext]_accountVars

-----------------------------------------------------------------------------
(* Properties.                                                             *)

\* Files and locals keep their types; a call that needs a key has one.
AccountTypeOK ==
    /\ keyFile \in Key \cup {Missing, Damaged}
    /\ generated \in SUBSET Key
    /\ dirs \in SUBSET Namespace
    /\ ledger \in [Namespace -> Database \cup {Missing}]
    /\ call \in [Caller -> Call]
    /\ lost \in BOOLEAN /\ copied \in BOOLEAN
    /\ \A p \in Caller :
           call[p].pc \in {"mkdir", "look", "initialize", "bind", "publish_ledger",
                           "validate", "open", "opened"} => call[p].key \in Key

\* "Generating a new key would silently strand the old namespaces": whatever
\* first setups race and whatever keys are lost and restored, all the accounts
\* of an installation were named with one key, so a subject that comes back
\* finds its history.
OneKeyNamesAccounts == \A d, e \in dirs : d.key = e.key

\* A first setup racing another one is not taken for a lost key, nor the
\* winner's ledger for a foreign one: calls are refused for recovery only after
\* the user has lost or damaged the key, as unbound or foreign only after the
\* user has copied a database.
RefusalsHaveCause ==
    \A p \in Caller :
        /\ call[p].outcome = "recovery_required" => lost
        /\ call[p].outcome \in {"unbound", "mismatch"} => copied

\* "A copied legacy or another-account DB must never be silently adopted or
\* modified", and no crash strands an unbound ledger: a ledger this program has
\* created or migrated is bound to the account of its directory.
WrittenLedgersAreOwn ==
    \A n \in Namespace :
        ledger[n] # Missing /\ ledger[n].written => ledger[n].binding = n

\* History that was synchronised into a ledger is there until the user replaces
\* the file: no racing initialisation puts an empty ledger in its place.
HistoryIsKept ==
    [][\A n \in Namespace :
           ledger[n] # Missing /\ ledger[n].history => ledger'[n] # Missing /\ ledger'[n].history]_accountVars

=============================================================================
