------------------------------- MODULE MibRequests ------------------------------
(* How an agent++ agent processes requests (mib.cpp, request.cpp).  Every    *)
(* request runs in a thread of its own.  There is a lock for the MIB and one *)
(* for each of its entries.  A GET locks the MIB to find the entry, and      *)
(* gives it up when it has the entry's lock.  A SET has four phases: prepare *)
(* locks all the entries with the MIB locked, commit writes, and then either *)
(* undo or cleanup gives the entries back.                                   *)
(*                                                                           *)
(* A leaf has a value, which is named after the SET that wrote it, and the   *)
(* copy MibLeaf::set keeps for undo.  Of a table only the lock is modelled,  *)
(* and that the first binding of a row that does not exist yet creates it,   *)
(* with what all the bindings of that row say.                               *)
EXTENDS Integers, Sequences

CONSTANTS Leaves, Tables,
          Gets,       \* GET, GETNEXT and GETBULK requests
          Sets,       \* SET requests
          Removers,   \* threads that call Mib::remove
          Groups,     \* the groups of the default context, lists of entries
          Reads,      \* the lists of entries that a GET may be about
          Writes,     \* the lists of entries that a SET may be about
          NoOne, Initial

Entries == Leaves \cup Tables
Requests == Gets \cup Sets
Threads == Requests \cup Removers

ASSUME ReadsOfEntries == Reads \subseteq Seq(Entries) \ {<<>>}
ASSUME NoOneIsNobody == NoOne \notin Threads \cup Entries
ASSUME InitialIsNobody == Initial \notin Sets \cup {NoOne}
ASSUME KindsDiffer == Gets \cap Sets = {} /\ Requests \cap Removers = {}
ASSUME WritesOfEntries == Writes \subseteq Seq(Entries) \ {<<>>}
ASSUME GroupsOfEntries == Groups \subseteq Seq(Entries) \ {<<>>}

VARIABLES present,    \* the entries of the context
          stripped,   \* the entries whose value or rows were freed
          freed,      \* the entries that were deleted
          groups,     \* the groups that were not removed yet
          mib,        \* the thread that holds the MIB's lock
          owner,      \* per entry, the thread that holds its lock
          value,      \* per leaf, who wrote its value
          undo,       \* per leaf, the copy for undo, or NoOne
          pc,
          asked,      \* what each thread was called with
          at,         \* the binding a request has come to
          locks,      \* per SET and binding, the entry locked for it
          row,        \* per SET and binding, the later ones of the row it creates
          done,       \* per SET, the bindings that are committed
          before      \* history: per SET, the leaves as it found them

setVars == <<locks, row, done, before>>
entryVars == <<present, stripped, freed, groups>>
vars == <<entryVars, mib, owner, value, undo, pc, asked, at, setVars>>

(* Mib::process_request has started a thread for every request. *)
Init ==
    /\ present = Entries /\ stripped = {} /\ freed = {} /\ groups = Groups
    /\ mib = NoOne
    /\ owner = [e \in Entries |-> NoOne]
    /\ value = [x \in Leaves |-> Initial]
    /\ undo = [x \in Leaves |-> NoOne]
    /\ pc = [t \in Threads |-> CASE t \in Gets -> "find" [] t \in Sets -> "enter" [] OTHER -> "idle"]
    /\ \E reads \in [Gets -> Reads], writes \in [Sets -> Writes] :
         /\ asked = [t \in Threads |-> CASE t \in Gets -> reads[t]
                                         [] t \in Sets -> writes[t]
                                         [] OTHER -> <<>>]
         /\ locks = [s \in Sets |-> [i \in DOMAIN writes[s] |-> NoOne]]
         /\ row = [s \in Sets |-> [i \in DOMAIN writes[s] |-> {}]]
    /\ at = [t \in Threads |-> 1]
    /\ done = [s \in Sets |-> {}]
    /\ before = [s \in Sets |-> [x \in Leaves |-> Initial]]

Goto(t, label) == pc' = [pc EXCEPT ![t] = label]

(* The entry of the binding a thread has come to. *)
Entry(t) == asked[t][at[t]]

--------------------------------------------------------------------------------
(* A GET goes on with binding n, or is answered after the last one. *)
GetNext(g, n) ==
    /\ at' = [at EXCEPT ![g] = n]
    /\ Goto(g, IF n > Len(asked[g]) THEN "answer" ELSE "find")

(* A mutant of Find: it gives up the MIB before it has the entry's lock. *)
MFindUnlocks(g) ==
    /\ pc[g] = "find" /\ mib = NoOne
    /\ Entry(g) \in present
    /\ Goto(g, "lock")
    /\ UNCHANGED <<entryVars, mib, owner, value, undo, asked, at, setVars>>

(* Look the entry up with the MIB locked.  When there is none, SNMPv1 gives  *)
(* the request up and the later versions go on with the next binding.        *)
Find(g) ==
    /\ pc[g] = "find" /\ mib = NoOne
    /\ \/ /\ Entry(g) \in present
          /\ mib' = g
          /\ Goto(g, "lock") /\ UNCHANGED at
       \/ /\ Entry(g) \notin present
          /\ \E n \in {at[g] + 1, Len(asked[g]) + 1} : GetNext(g, n)
          /\ UNCHANGED mib
    /\ UNCHANGED <<entryVars, owner, value, undo, asked, setVars>>

(* entry->start_synch(), and only then unlock_mib(). *)
LockEntry(g) ==
    /\ pc[g] = "lock" /\ owner[Entry(g)] = NoOne
    /\ owner' = [owner EXCEPT ![Entry(g)] = g]
    /\ mib' = IF mib = g THEN NoOne ELSE mib
    /\ Goto(g, "read")
    /\ UNCHANGED <<entryVars, value, undo, asked, at, setVars>>

(* entry->get_request() and end_synch(). *)
Read(g) ==
    /\ pc[g] = "read"
    /\ owner' = [owner EXCEPT ![Entry(g)] = NoOne]
    /\ GetNext(g, at[g] + 1)
    /\ UNCHANGED <<entryVars, mib, value, undo, asked, setVars>>
--------------------------------------------------------------------------------
(* A SET enters a phase at its first binding. *)
Phase(s, label) == Goto(s, label) /\ at' = [at EXCEPT ![s] = 1]

AtLast(s) == at[s] = Len(asked[s])

(* On to the next binding, and to the next phase after the last one. *)
NextBinding(s, next) ==
    IF AtLast(s)
    THEN Phase(s, next)
    ELSE at' = [at EXCEPT ![s] = @ + 1] /\ UNCHANGED pc

Enter(s) ==
    /\ pc[s] = "enter" /\ mib = NoOne
    /\ mib' = s
    /\ Phase(s, "prepare")
    /\ UNCHANGED <<entryVars, owner, value, undo, asked, setVars>>

(* The bindings marked ready by check_creation are left to their row's first. *)
Ready(s) == UNION {row[s][i] : i \in DOMAIN row[s]}

(* A mutant of Refuse: it returns with the MIB locked. *)
MRefuseKeepsMib(s) ==
    /\ UNCHANGED mib
    /\ Phase(s, "cleanup")

(* A binding that cannot be set: unlock the MIB, and go and clean up. *)
Refuse(s) ==
    /\ mib' = NoOne
    /\ Phase(s, "cleanup")

(* A mutant of TakeLock: the entry is unlocked again when it is prepared. *)
MTakeLockReturns(s) ==
    /\ owner[Entry(s)] \in {NoOne, s}
    /\ locks' = [locks EXCEPT ![s][at[s]] = Entry(s)]
    /\ UNCHANGED <<owner, before>>

(* Request::set_locked, which waits unless the request has the lock already. *)
TakeLock(s) ==
    /\ owner[Entry(s)] \in {NoOne, s}
    /\ owner' = [owner EXCEPT ![Entry(s)] = s]
    /\ locks' = [locks EXCEPT ![s][at[s]] = Entry(s)]
    /\ before' = IF owner[Entry(s)] = NoOne /\ Entry(s) \in Leaves
                 THEN [before EXCEPT ![s][Entry(s)] = value[Entry(s)]]
                 ELSE before

(* The bindings that prepare_set_request of a table may mark ready. *)
Columns(s) ==
    IF Entry(s) \in Tables
    THEN {j \in DOMAIN asked[s] : j > at[s] /\ asked[s][j] = Entry(s) /\ j \notin Ready(s)}
    ELSE {}

(* The MIB stays locked until the last binding is prepared. *)
Prepared(s) ==
    /\ mib' = IF AtLast(s) THEN NoOne ELSE mib
    /\ NextBinding(s, "commit")

(* One binding of process_prepare_set_request. *)
Prepare(s) ==
    /\ pc[s] = "prepare"
    /\ \/ /\ at[s] \in Ready(s)
          /\ Prepared(s) /\ UNCHANGED <<owner, setVars>>
       \/ /\ at[s] \notin Ready(s) /\ Entry(s) \notin present
          /\ Refuse(s) /\ UNCHANGED <<owner, setVars>>
       \/ /\ at[s] \notin Ready(s) /\ Entry(s) \in present
          /\ TakeLock(s)
          /\ \/ \E columns \in SUBSET Columns(s) :
                  row' = [row EXCEPT ![s][at[s]] = columns] /\ Prepared(s)
             \/ Refuse(s) /\ UNCHANGED row
          /\ UNCHANGED done
    /\ UNCHANGED <<entryVars, value, undo, asked>>
--------------------------------------------------------------------------------
(* f with a new value for entry e, when that is a leaf. *)
ForLeaf(f, e, new) == [x \in Leaves |-> IF x = e THEN new ELSE f[x]]

(* MibLeaf::set keeps a copy of the value, and may then fail.  A table       *)
(* commits every binding of a new row at once.                               *)
Commit(s) ==
    LET i == at[s]
        e == locks[s][i]
        copied == [x \in Leaves |-> IF x = e THEN value[x] ELSE undo[x]]
    IN
    /\ pc[s] = "commit"
    /\ \/ i \in done[s] /\ NextBinding(s, "cleanup") /\ UNCHANGED <<value, undo, done>>
       \/ /\ i \notin done[s] /\ e # NoOne
          /\ undo' = copied
          /\ value' = ForLeaf(value, e, s)
          /\ done' = [done EXCEPT ![s] = @ \cup {i} \cup row[s][i]]
          /\ NextBinding(s, "cleanup")
       \/ /\ i \notin done[s]
          /\ undo' = copied
          /\ Phase(s, "undo") /\ UNCHANGED <<value, done>>
    /\ UNCHANGED <<entryVars, mib, owner, asked, locks, row, before>>

(* Request::set_unlocked: the last binding that locked an entry unlocks it. *)
Unlock(s) ==
    LET i == at[s] IN
    /\ locks' = [locks EXCEPT ![s][i] = NoOne]
    /\ owner' = IF \E j \in DOMAIN locks[s] \ {i} : locks[s][j] = locks[s][i]
                THEN owner
                ELSE [owner EXCEPT ![locks[s][i]] = NoOne]

(* A binding without an entry is left out, and there is no cleanup after the *)
(* last one.                                                                 *)
Undo(s) ==
    LET e == locks[s][at[s]] IN
    /\ pc[s] = "undo"
    /\ IF e = NoOne
       THEN UNCHANGED <<value, undo, owner, locks>>
       ELSE /\ value' = [x \in Leaves |-> IF x = e /\ undo[x] # NoOne THEN undo[x] ELSE value[x]]
            /\ undo' = ForLeaf(undo, e, NoOne)
            /\ Unlock(s)
    /\ NextBinding(s, "answer")
    /\ UNCHANGED <<entryVars, mib, asked, row, done, before>>

(* A mutant of Cleanup: the copy for undo is left behind. *)
MCleanupKeepsUndo(s) ==
    /\ pc[s] = "cleanup"
    /\ IF locks[s][at[s]] = NoOne
       THEN Phase(s, "answer") /\ UNCHANGED <<owner, locks>>
       ELSE Unlock(s) /\ NextBinding(s, "answer")
    /\ UNCHANGED <<entryVars, mib, value, undo, asked, row, done, before>>

(* Cleaning up ends at the first binding without an entry. *)
Cleanup(s) ==
    LET e == locks[s][at[s]] IN
    /\ pc[s] = "cleanup"
    /\ IF e = NoOne
       THEN Phase(s, "answer") /\ UNCHANGED <<undo, owner, locks>>
       ELSE /\ undo' = ForLeaf(undo, e, NoOne)
            /\ Unlock(s)
            /\ NextBinding(s, "answer")
    /\ UNCHANGED <<entryVars, mib, value, asked, row, done, before>>

(* finalize: the response is sent and the request deleted; its destructor    *)
(* gives back the entries it still has.                                      *)
Answer(r) ==
    /\ pc[r] = "answer"
    /\ owner' = [e \in Entries |-> IF owner[e] = r THEN NoOne ELSE owner[e]]
    /\ locks' = IF r \in Sets THEN [locks EXCEPT ![r] = <<>>] ELSE locks
    /\ Goto(r, "answered")
    /\ UNCHANGED <<entryVars, mib, value, undo, asked, at, row, done, before>>
--------------------------------------------------------------------------------
(* Mib::remove of the name of a group: remove_group, with the MIB locked.    *)
RemoveGroup(m) ==
    /\ pc[m] = "idle" /\ mib = NoOne
    /\ \E g \in groups :
         /\ groups' = groups \ {g}
         /\ asked' = [asked EXCEPT ![m] = g]
    /\ mib' = m
    /\ Goto(m, "strip")
    /\ UNCHANGED <<present, stripped, freed, owner, value, undo, at, setVars>>

(* On to the next entry of the group; the MIB is unlocked after the last one. *)
NextEntry(m) ==
    IF at[m] = Len(asked[m])
    THEN Goto(m, "removed") /\ mib' = NoOne /\ UNCHANGED at
    ELSE Goto(m, "strip") /\ at' = [at EXCEPT ![m] = @ + 1] /\ UNCHANGED mib

(* Nobody locks the entry before it is taken out of the context and what the *)
(* derived class keeps in it is freed.  An entry that remove() took away     *)
(* alone is still in the list of its group: reading its key finds what was   *)
(* there, or anything, after which nothing is said of this thread.           *)
Strip(m) ==
    /\ pc[m] = "strip"
    /\ \/ /\ Entry(m) \in present
          /\ present' = present \ {Entry(m)}
          /\ stripped' = stripped \cup {Entry(m)}
          /\ Goto(m, "reclaim") /\ UNCHANGED <<mib, at>>
       \/ /\ Entry(m) \notin present
          /\ NextEntry(m) \/ (Goto(m, "lost") /\ UNCHANGED <<mib, at>>)
          /\ UNCHANGED <<present, stripped>>
    /\ UNCHANGED <<freed, groups, owner, value, undo, asked, setVars>>

(* ~MibEntry waits for the entry's lock, which it never gives back. *)
Reclaim(m) ==
    /\ pc[m] = "reclaim" /\ owner[Entry(m)] = NoOne
    /\ freed' = freed \cup {Entry(m)}
    /\ NextEntry(m)
    /\ UNCHANGED <<present, stripped, groups, owner, value, undo, asked, setVars>>

(* Mib::remove otherwise: with the MIB locked, the entry is locked, taken    *)
(* out of its context and unlocked, and then deleted.                        *)
RemoveFind(m) ==
    /\ pc[m] = "idle" /\ mib = NoOne
    /\ \E e \in Entries :
         /\ asked' = [asked EXCEPT ![m] = <<e>>]
         /\ IF e \in present
            THEN mib' = m /\ Goto(m, "unlink")
            ELSE Goto(m, "removed") /\ UNCHANGED mib
    /\ UNCHANGED <<entryVars, owner, value, undo, at, setVars>>

Unlink(m) ==
    /\ pc[m] = "unlink" /\ owner[Entry(m)] = NoOne
    /\ present' = present \ {Entry(m)}
    /\ Goto(m, "delete")
    /\ UNCHANGED <<stripped, freed, groups, mib, owner, value, undo, asked, at, setVars>>

Delete(m) ==
    /\ pc[m] = "delete"
    /\ stripped' = stripped \cup {Entry(m)}
    /\ freed' = freed \cup {Entry(m)}
    /\ mib' = NoOne
    /\ Goto(m, "removed")
    /\ UNCHANGED <<present, groups, owner, value, undo, asked, at, setVars>>

(* Mib::remove(context, oid) returns with the MIB locked when there is no    *)
(* such context.                                                             *)
RemoveFromNoContext(m) ==
    /\ pc[m] = "idle" /\ mib = NoOne
    /\ mib' = m
    /\ Goto(m, "leaked")
    /\ UNCHANGED <<entryVars, owner, value, undo, asked, at, setVars>>
--------------------------------------------------------------------------------
GetStep(g) == Find(g) \/ LockEntry(g) \/ Read(g) \/ Answer(g)

SetStep(s) ==
    Enter(s) \/ Prepare(s) \/ Commit(s) \/ Undo(s) \/ Cleanup(s) \/ Answer(s)

Removal(m) == Strip(m) \/ Reclaim(m) \/ Unlink(m) \/ Delete(m)

Next ==
    \/ \E g \in Gets : GetStep(g)
    \/ \E s \in Sets : SetStep(s)
    \/ \E m \in Removers :
         RemoveGroup(m) \/ RemoveFind(m) \/ Removal(m) \/ RemoveFromNoContext(m)

Spec == Init /\ [][Next]_vars

(* A thread that can go on does so.  Nothing is asked of the locks, because  *)
(* every thread locks a finite number of times, and nobody has to call       *)
(* remove().                                                                 *)
Fairness ==
    /\ \A g \in Gets : WF_vars(GetStep(g))
    /\ \A s \in Sets : WF_vars(SetStep(s))
    /\ \A m \in Removers : WF_vars(Removal(m))

FairSpec == Spec /\ Fairness
--------------------------------------------------------------------------------
TypeOK ==
    /\ {present, stripped, freed} \subseteq SUBSET Entries /\ groups \subseteq Groups
    /\ mib \in Threads \cup {NoOne}
    /\ owner \in [Entries -> Requests \cup {NoOne}]
    /\ value \in [Leaves -> Sets \cup {Initial}]
    /\ undo \in [Leaves -> Sets \cup {Initial, NoOne}]
    /\ \A s \in Sets : locks[s] \in Seq(Entries \cup {NoOne})

(* What mib.h says under "Why is this save?", as far as it is true: when an   *)
(* entry has lost its value, the only one who can still have its lock is a    *)
(* request that had it when remove_group, which asks nobody, came to it (and  *)
(* whose use of the entry is then undefined).  ~MibEntry waits for that       *)
(* request, so that no lock is deleted that somebody has or waits for.        *)
EntriesInUseExist ==
    /\ \A e \in stripped :
          owner[e] # NoOne => \E m \in Removers : pc[m] = "reclaim" /\ Entry(m) = e
    /\ \A e \in freed : owner[e] = NoOne
    /\ \A t \in Threads : pc[t] \in {"lock", "unlink", "reclaim"} => Entry(t) \notin freed

(* No GET reads what a SET has written and may still undo. *)
NoDirtyRead ==
    \A g \in Gets, s \in Sets :
        /\ pc[g] = "read" /\ Entry(g) \in Leaves \ stripped
        /\ pc[s] \in {"commit", "undo"}
        => value[Entry(g)] # s

(* A SET whose commit fails is undone: when it unlocks a leaf, the leaf has  *)
(* the value it had when the request locked it.                              *)
UndoneLeaf(s, x) ==
    /\ pc[s] = "undo" /\ owner[x] = s /\ owner'[x] # s
    /\ x \notin stripped
    => value'[x] = before[s][x]

RollbackRestores == [][\A s \in Sets, x \in Leaves : UndoneLeaf(s, x)]_vars

(* Every request is answered, whatever the others lock and remove, as long   *)
(* as nobody has removed something from a context that does not exist, or a   *)
(* group with an entry that a request has or that was deleted before.         *)
Answered == \A r \in Requests : pc[r] = "answered"

Torn == \E e \in stripped : owner[e] # NoOne

EveryRequestAnswered ==
    <>(Answered \/ Torn \/ \E m \in Removers : pc[m] \in {"leaked", "lost"})
================================================================================
