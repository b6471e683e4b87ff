------------------------------ MODULE CanTxList ------------------------------
(* The list of frames to transmit: CanEntryHandler's entries, its worker that *)
(* collects those that are due, and the panel's grid over them.  The list is  *)
(* changed with the model's lock held.  The grid's rows keep pointers to the  *)
(* entries, and its buttons set an entry's flags through them without it; a   *)
(* frame's payload, its counters and the recording are left out, and so are   *)
(* the rows that the favourite level or a search hides.                       *)
EXTENDS Naturals, Sequences, FiniteSets, SequencesExt

CONSTANTS
  MaxId,      \* frame ids are 1 .. MaxId
  DefaultId,  \* kNewTxEntryDefaultId
  MaxEntries, \* bound: entries in the list
  MaxObjects  \* bound: entries alive or still pointed to

ASSUME ListAssumption ==
  /\ MaxId \in Nat /\ DefaultId \in 1 .. MaxId
  /\ MaxEntries \in Nat /\ MaxObjects \in Nat

VARIABLES
  entries, \* entries: the objects in the order of the list
  heap,    \* the objects' members
  rows,    \* the grid: each row's pointer and what its id cell says
  stale,   \* a load has failed and the grid has not been filled since
  copied,  \* an entry has been copied since the last load
  autoSend,\* m_AutoSend
  scan,    \* 0, or the entry the worker looks at with the lock held
  taken,   \* it has taken that entry's single shot and not cleared it yet
  due,     \* frames collected and not yet handed to the transport
  owed     \* entries with a One Shot that has not been answered

list == <<entries, stale, copied>>
worker == <<scan, taken, due>>
vars == <<list, heap, rows, autoSend, worker, owed>>

Ids == 1 .. MaxId
NoId == 0 \* a cell that is no hexadecimal number
Objects == 1 .. MaxObjects
Entry(id, send) == [id |-> id, send |-> send, shot |-> FALSE]
Unused == Entry(1, FALSE)

Alive == Range(entries)
UsedIds == {heap[o].id : o \in Alive}
Locked == scan # 0
Pointed == Alive \cup {rows[r].object : r \in DOMAIN rows} \cup {due[k] : k \in DOMAIN due}

(* New objects: the n of the smallest names, in the order of their names.  *)
Free == Objects \ Pointed
Fresh(n) == {s \in [1 .. n -> Free] :
               \A i \in 1 .. n, o \in Free : o < s[i] <=> \E j \in 1 .. i - 1 : s[j] = o}

(* FindTxCanEntryByFrame and the other searches take the first one.        *)
Having(id) == {i \in DOMAIN entries : heap[entries[i]].id = id}
FirstWith(id) == Min(Having(id))

Init ==
  /\ entries = <<>> /\ heap = [o \in Objects |-> Unused]
  /\ rows = <<>> /\ stale = FALSE /\ copied = FALSE
  /\ autoSend \in BOOLEAN
  /\ scan = 0 /\ taken = FALSE /\ due = <<>>
  /\ owed = {}

-----------------------------------------------------------------------------
(* What the list and the members become.  What a handler writes through a  *)
(* row's pointer to an entry that is gone is lost.                         *)
Change(objects, members) ==
  /\ entries' = objects
  /\ heap' = [o \in Objects |-> IF o \in Range(objects) THEN members[o] ELSE Unused]

(* ... and RefreshTx, at the end of every handler that changes the list.   *)
ChangeAndRefreshTx(objects, members) ==
  /\ rows' = [r \in DOMAIN objects |-> [object |-> objects[r], cell |-> members[objects[r]].id]]
  /\ stale' = FALSE
  /\ Change(objects, members)

(* LoadTxList of the frames in a file.  The loader skips a frame whose id  *)
(* it has; a malformed entry ends it.  It fails with what it has read; the *)
(* panel then leaves its rows as they were, the tray icon's reload does    *)
(* not look at the result.                                                 *)
Files == {f \in UNION {[1 .. n -> Ids] : n \in 0 .. MaxEntries} :
            \A i, j \in DOMAIN f : f[i] = f[j] => i = j}

Loaded(new, ids, send) ==
  [o \in Objects |-> IF o \in Range(new)
                     THEN Entry(ids[CHOOSE i \in DOMAIN new : new[i] = o], send) ELSE heap[o]]

LoadTxList(ids, whole, fromMenu) ==
  /\ ~Locked
  /\ \E new \in Fresh(Len(ids)) :
       LET members == Loaded(new, ids, whole /\ autoSend)
       IN IF whole \/ ~fromMenu
          THEN ChangeAndRefreshTx(new, members)
          ELSE UNCHANGED rows /\ stale' = TRUE /\ Change(new, members)
  /\ copied' = FALSE /\ owed' = {}
  /\ UNCHANGED <<autoSend, worker>>

-----------------------------------------------------------------------------
(* The panel's buttons, with the row r selected.  They find the entry by   *)
(* the id in the row's cell, and fill the grid again even if there is none. *)
Selected(r) == ~Locked /\ r \in DOMAIN rows

Insert(at, entry) ==
  /\ Len(entries) < MaxEntries
  /\ \E new \in Fresh(1) :
       /\ ChangeAndRefreshTx(InsertAt(entries, at, new[1]), [heap EXCEPT ![new[1]] = entry])
       /\ owed' = owed \ {new[1]}

After(r) == IF r + 1 <= Len(entries) THEN r + 1 ELSE Len(entries) + 1

(* Mutant of InsertDefaultTxEntryAfter: the default id whether used or not. *)
InsertDefaultAnyway(r) ==
  /\ Selected(r)
  /\ Insert(After(r), Entry(DefaultId, FALSE))
  /\ UNCHANGED <<copied, autoSend, worker>>

(* Add: the first id from the default on that no entry has.                *)
InsertDefaultTxEntryAfter(r) ==
  /\ Selected(r)
  /\ \E id \in DefaultId .. MaxId :
       /\ id \notin UsedIds /\ DefaultId .. id - 1 \subseteq UsedIds
       /\ Insert(After(r), Entry(id, FALSE))
  /\ UNCHANGED <<copied, autoSend, worker>>

(* Copy: the duplicate has the next id, used or not.                       *)
DuplicateFirstTxEntry(r) ==
  /\ Selected(r)
  /\ IF rows[r].cell \in UsedIds
     THEN /\ rows[r].cell < MaxId
          /\ Insert(Len(entries) + 1, Entry(rows[r].cell + 1, FALSE))
          /\ copied' = TRUE
     ELSE ChangeAndRefreshTx(entries, heap) /\ UNCHANGED <<copied, owed>>
  /\ UNCHANGED <<autoSend, worker>>

(* The entries without some, for the one order-keeping list of the         *)
(* positions that stay.                                                    *)
Without(id) ==
  LET stay == DOMAIN entries \ Having(id)
      Ordered == {s \in [1 .. Cardinality(stay) -> stay] :
                    \A k, l \in DOMAIN s : k < l => s[k] < s[l]}
  IN {[k \in DOMAIN s |-> entries[s[k]]] : s \in Ordered}

(* Mutant of RemoveTxEntries: the grid is not filled again.                *)
RemoveTxEntriesOnly(r) ==
  /\ Selected(r)
  /\ UNCHANGED <<rows, stale>>
  /\ \E rest \in Without(rows[r].cell) : Change(rest, heap)
  /\ owed' = owed \cap Range(entries')
  /\ UNCHANGED <<copied, autoSend, worker>>

(* Delete: every entry with the row's id.                                  *)
RemoveTxEntries(r) ==
  /\ Selected(r)
  /\ \E rest \in Without(rows[r].cell) : ChangeAndRefreshTx(rest, heap)
  /\ owed' = owed \cap Range(entries')
  /\ UNCHANGED <<copied, autoSend, worker>>

(* Move Up and Move Down: SwapTxEntriesById with the neighbouring row, or  *)
(* RotateTxFrontToBack and RotateTxBackToFront from the end.               *)
Swapped(id, other) ==
  IF Having(id) = {} \/ Having(other) = {} THEN entries
  ELSE [entries EXCEPT ![FirstWith(id)] = entries[FirstWith(other)],
                       ![FirstWith(other)] = entries[FirstWith(id)]]

Move(r, to) ==
  /\ Selected(r)
  /\ LET moved == IF entries = <<>> \/ rows[r].cell = NoId THEN entries
                  ELSE CASE to = 0 -> Tail(entries) \o <<Head(entries)>>
                         [] to = Len(rows) + 1 -> <<Last(entries)>> \o Front(entries)
                         [] OTHER -> Swapped(rows[r].cell, rows[to].cell)
     IN ChangeAndRefreshTx(moved, heap)
  /\ UNCHANGED <<copied, autoSend, worker, owed>>

(* OnCellValueChanged of an id: refused if another entry has it.           *)
EditId(r, id) ==
  /\ Selected(r)
  /\ LET o == rows[r].object
         clash == \E other \in Alive \ {o} : heap[other].id = id
     IN /\ heap' = IF id = NoId \/ clash \/ o \notin Alive THEN heap ELSE [heap EXCEPT ![o].id = id]
        /\ rows' = [rows EXCEPT ![r].cell = IF clash THEN heap[o].id ELSE id]
  /\ UNCHANGED <<list, autoSend, worker, owed>>

(* One Shot, Send selected and Stop selected, Send All and Stop All go     *)
(* through the rows' pointers and take no lock.                            *)
OneShot(r) ==
  /\ r \in DOMAIN rows /\ rows[r].object \in Alive
  /\ heap' = [heap EXCEPT ![rows[r].object].shot = TRUE]
  /\ owed' = owed \cup {rows[r].object}
  /\ UNCHANGED <<list, rows, autoSend, worker>>

SetSending(chosen, on) ==
  LET objects == {rows[r].object : r \in chosen} \cap Alive
  IN /\ heap' = [o \in Objects |->
                  IF o \in objects THEN [heap[o] EXCEPT !.shot = FALSE, !.send = on] ELSE heap[o]]
     /\ owed' = owed \ objects
     /\ UNCHANGED <<list, rows, autoSend, worker>>

Panel ==
  \/ \E ids \in Files, whole, fromMenu \in BOOLEAN : LoadTxList(ids, whole, fromMenu)
  \/ \E r \in DOMAIN rows :
       \/ InsertDefaultTxEntryAfter(r) \/ DuplicateFirstTxEntry(r) \/ RemoveTxEntries(r)
       \/ \E to \in {r - 1, r + 1} : Move(r, to)
       \/ \E id \in Ids \cup {NoId} : EditId(r, id)
       \/ OneShot(r)
       \/ \E on \in BOOLEAN : SetSending({r}, on)
  \/ \E on \in BOOLEAN : SetSending(DOMAIN rows, on)

-----------------------------------------------------------------------------
(* WorkerThread: a pass over the entries with the lock held, then the      *)
(* frames without it.                                                      *)
BeginPass ==
  /\ ~Locked /\ due = <<>> /\ entries # <<>>
  /\ scan' = 1
  /\ UNCHANGED <<list, heap, rows, autoSend, taken, due, owed>>

PassOn == scan' = (IF scan = Len(entries) THEN 0 ELSE scan + 1)

(* A single shot is collected; its flag is cleared in the next step.       *)
TakeShot ==
  /\ Locked /\ ~taken /\ heap[entries[scan]].shot
  /\ due' = Append(due, entries[scan])
  /\ taken' = TRUE
  /\ UNCHANGED <<list, heap, rows, autoSend, scan, owed>>

ClearShot ==
  /\ taken
  /\ heap' = [heap EXCEPT ![entries[scan]].shot = FALSE]
  /\ taken' = FALSE /\ PassOn
  /\ UNCHANGED <<list, rows, autoSend, due, owed>>

(* An entry that is sent with a period, which may have passed, or has none. *)
Visit ==
  /\ Locked /\ ~taken
  /\ LET e == heap[entries[scan]]
     IN /\ ~e.shot
        /\ \/ UNCHANGED due
           \/ e.send /\ due' = Append(due, entries[scan])
  /\ PassOn
  /\ UNCHANGED <<list, heap, rows, autoSend, taken, owed>>

(* Mutant of SendDue: what is left over is dropped.                        *)
SendFirst ==
  /\ ~Locked /\ due # <<>>
  /\ due' = <<>> /\ owed' = owed \ {Head(due)}
  /\ UNCHANGED <<list, heap, rows, autoSend, scan, taken>>

SendDue ==
  /\ ~Locked /\ due # <<>>
  /\ due' = Tail(due) /\ owed' = owed \ {Head(due)}
  /\ UNCHANGED <<list, heap, rows, autoSend, scan, taken>>

Worker == BeginPass \/ TakeShot \/ ClearShot \/ Visit \/ SendDue

Next == Panel \/ Worker

Spec == Init /\ [][Next]_vars

-----------------------------------------------------------------------------
TypeOK ==
  /\ entries \in Seq(Objects) /\ Len(entries) <= MaxEntries
  /\ heap \in [Objects -> [id : Ids, send : BOOLEAN, shot : BOOLEAN]]
  /\ rows \in Seq([object : Objects, cell : Ids \cup {NoId}])
  /\ scan \in 0 .. Len(entries) /\ (taken => Locked)
  /\ due \in Seq(Objects) /\ owed \subseteq Objects

(* Every row of the grid points to an entry that is in the list, once, and *)
(* its cell has the entry's id or nothing that can be read, except after a *)
(* load from the menu has failed: then the rows point to entries that are  *)
(* gone until something fills the grid again.                              *)
RowsAreEntries ==
  stale \/ \A r \in DOMAIN rows :
             /\ rows[r].object \in Alive
             /\ rows[r].cell \in {heap[rows[r].object].id, NoId}
             /\ \A other \in DOMAIN rows \ {r} : rows[other].object # rows[r].object

(* No two entries have the same id, by which the buttons find them and the *)
(* sent frames are counted, until one is copied.                           *)
IdsDiffer ==
  copied \/ \A i, j \in DOMAIN entries : heap[entries[i]].id = heap[entries[j]].id => i = j

(* A One Shot is not forgotten, though the worker clears the flag that the *)
(* button sets without a lock: until the frame is handed to the transport, *)
(* the flag is set or the frame is among those to be sent.                 *)
ShotIsKept ==
  \A o \in owed \cap Alive : heap[o].shot \/ \E k \in DOMAIN due : due[k] = o
=============================================================================
