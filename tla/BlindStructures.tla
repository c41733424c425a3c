--------------------------- MODULE BlindStructures ---------------------------
(***************************************************************************)
(* The catalogue of blind structures (BlindStructureService) and the grids *)
(* that tournaments copy from it (createTournament, updateTournament).  A  *)
(* grid is a set of level rows; a preset is replaced by deleting its rows  *)
(* and inserting others, in two statements of one transaction.             *)
(***************************************************************************)
EXTENDS Integers, Sequences, FiniteSets, SequencesExt, FiniteSetsExt

CONSTANTS None,
          Reqs,
          Presets,          \* rows of blind_structures that ever exist
          Tournaments,
          Submissions,      \* the sequences of levels an admin may send
          Cuts,             \* values of reentryUntilLevel, 0 for a column left null
          Workload          \* the routes the clients of this instance call

VARIABLES presets,          \* status and rows of each preset
          rowLock,          \* the request whose transaction has deleted the rows
          tours,            \* status, structure, grid and cut of each tournament
          req

vars == <<presets, rowLock, tours, req>>

NoPreset == [status |-> "NONE", rows |-> {}]
NoTour == [status |-> "NONE", structure |-> None, grid |-> {}, cut |-> 0]
Idle == [pc |-> "idle", op |-> None, preset |-> None, tour |-> None, rows |-> {}, stale |-> FALSE,
         cut |-> 0]

Init ==
  /\ presets = [p \in Presets |-> NoPreset]
  /\ rowLock = [p \in Presets |-> None]
  /\ tours = [t \in Tournaments |-> NoTour]
  /\ req = [r \in Reqs |-> Idle]

-----------------------------------------------------------------------------

Numbers(levels) == [i \in DOMAIN levels |-> levels[i].number]

\* assertValidLevelSet: no number twice, 1 to N without a gap, the big blind not
\* below the small one, a name for every break.
ValidLevelSet(levels) ==
  /\ IsInjective(Numbers(levels))
  /\ 1 .. Len(levels) \subseteq ToSet(Numbers(levels))
  /\ \A i \in DOMAIN levels :
       /\ levels[i].big >= levels[i].small
       /\ levels[i].break => levels[i].label

ValidSubmissions == {s \in Submissions : ValidLevelSet(s)}

\* assertCoherentReentryConfig, for tournaments that allow re-entry.
CutInGrid(cut, grid) == grid # {} => cut <= Cardinality(grid)

Goto(r, pc) == req' = [req EXCEPT ![r].pc = pc]
Finish(r) == req' = [req EXCEPT ![r] = Idle]

Begin(r, arguments) ==
  /\ req[r].pc = "idle" /\ arguments.op \in Workload
  /\ req' = [req EXCEPT ![r] = arguments]
  /\ UNCHANGED <<presets, rowLock, tours>>

\* The transaction ends, and the rows it deleted are free.
Released(r) == [p \in Presets |-> IF rowLock[p] = r THEN None ELSE rowLock[p]]

-----------------------------------------------------------------------------
(* The catalogue.                                                          *)

Create(p) ==
  /\ presets[p].status = "NONE"
  /\ \E s \in ValidSubmissions :
       presets' = [presets EXCEPT ![p] = [status |-> "LISTED", rows |-> ToSet(s)]]
  /\ UNCHANGED <<rowLock, tours, req>>

\* update: the structure is found, and its DELETE starts, with the rows it sees.
Update(r) ==
  \E p \in Presets, s \in ValidSubmissions :
    /\ presets[p].status = "LISTED"
    /\ Begin(r, [Idle EXCEPT !.pc = "erase", !.op = "update", !.preset = p, !.rows = ToSet(s)])

\* It waits for whoever is deleting the same rows.
EraseLevels(r) ==
  LET q == req[r]
  IN  /\ q.pc = "erase"
      /\ rowLock[q.preset] = None
      /\ rowLock' = [rowLock EXCEPT ![q.preset] = r]
      /\ Goto(r, "insert")
      /\ UNCHANGED <<presets, tours>>

\* Mutant: without the unique index on structure and level number.
NoUniqueLevels(old, new) == TRUE

\* A level number is there once: the rows to insert meet none that are left, as are
\* those that another transaction inserted since the DELETE started.
UniqueLevels(old, new) == \A x \in old, y \in new : x.number # y.number

InsertLevels(r) ==
  LET q == req[r]
      left == IF q.stale THEN presets[q.preset].rows ELSE {}
  IN  /\ q.pc = "insert"
      /\ presets[q.preset].status = "LISTED"
      /\ UniqueLevels(left, q.rows)
      /\ presets' = [presets EXCEPT ![q.preset].rows = left \cup q.rows]
      /\ rowLock' = Released(r)
      /\ req' = [o \in Reqs |->
           IF o = r THEN Idle
           ELSE IF req[o].op = "update" /\ req[o].preset = q.preset
           THEN [req[o] EXCEPT !.stale = TRUE] ELSE req[o]]
      /\ UNCHANGED tours

\* delete: found, and counted as used by no tournament.
Delete(r) ==
  \E p \in Presets :
    /\ presets[p].status = "LISTED"
    /\ \A t \in Tournaments : tours[t].structure # p
    /\ Begin(r, [Idle EXCEPT !.pc = "delete", !.op = "delete", !.preset = p])

\* The levels go with it (Cascade), the tournaments forget it (SetNull).  It waits
\* for an update of the rows; when each waits for the other, one is aborted (Fail).
DeletePreset(r) ==
  LET p == req[r].preset
  IN  /\ req[r].pc = "delete"
      /\ presets[p].status = "LISTED" /\ rowLock[p] = None
      /\ presets' = [presets EXCEPT ![p] = [status |-> "DELETED", rows |-> {}]]
      /\ tours' = [t \in Tournaments |->
           IF tours[t].structure = p THEN [tours[t] EXCEPT !.structure = None] ELSE tours[t]]
      /\ Finish(r)
      /\ UNCHANGED rowLock

-----------------------------------------------------------------------------
(* Tournaments.                                                            *)

\* copyBlindLevels, then the checks, with the cut that will be in force.
CreateTournament(r) ==
  \E t \in Tournaments, p \in Presets \cup {None}, cut \in Cuts :
    LET grid == IF p = None THEN {} ELSE presets[p].rows
    IN  /\ tours[t].status = "NONE"
        /\ p # None => presets[p].status = "LISTED"
        /\ CutInGrid(cut, grid)
        /\ Begin(r, [Idle EXCEPT !.pc = "create", !.op = "create", !.tour = t, !.preset = p,
                                 !.rows = grid, !.cut = cut])

\* The foreign key asks for the structure to be there still.
StructureThere(p) == p # None => presets[p].status = "LISTED"

InsertTournament(r) ==
  LET q == req[r]
  IN  /\ q.pc = "create" /\ tours[q.tour].status = "NONE"
      /\ StructureThere(q.preset)
      /\ tours' = [tours EXCEPT ![q.tour] = [status |-> "REGISTERING", structure |-> q.preset,
                                             grid |-> q.rows, cut |-> q.cut]]
      /\ Finish(r)
      /\ UNCHANGED <<presets, rowLock>>

\* A PATCH of the structure, or of the cut; coherence is asked of what is stored
\* merged with the patch.
PatchStructure(r) ==
  \E t \in Tournaments, p \in Presets :
    /\ tours[t].status = "REGISTERING" /\ presets[p].status = "LISTED"
    /\ CutInGrid(tours[t].cut, presets[p].rows)
    /\ Begin(r, [Idle EXCEPT !.pc = "patch", !.op = "patchStructure", !.tour = t, !.preset = p,
                             !.rows = presets[p].rows])

PatchCut(r) ==
  \E t \in Tournaments, cut \in Cuts :
    /\ tours[t].status = "REGISTERING" /\ CutInGrid(cut, tours[t].grid)
    /\ Begin(r, [Idle EXCEPT !.pc = "patch", !.op = "patchCut", !.tour = t, !.cut = cut])

\* The old levels are deleted and the new ones inserted under the row lock that the
\* UPDATE of the tournament has taken.
ApplyPatch(r) ==
  LET q == req[r]
  IN  /\ q.pc = "patch"
      /\ StructureThere(q.preset)
      /\ tours' = [tours EXCEPT ![q.tour] =
           IF q.op = "patchCut" THEN [@ EXCEPT !.cut = q.cut]
           ELSE [@ EXCEPT !.structure = q.preset, !.grid = q.rows]]
      /\ Finish(r)
      /\ UNCHANGED <<presets, rowLock>>

-----------------------------------------------------------------------------

\* A statement that finds its row gone or its key taken, or a process that dies.
Fail(r) ==
  /\ req[r].pc # "idle"
  /\ rowLock' = Released(r)
  /\ Finish(r)
  /\ UNCHANGED <<presets, tours>>

Proceed(r) ==
  \/ EraseLevels(r) \/ InsertLevels(r) \/ DeletePreset(r) \/ InsertTournament(r)
  \/ ApplyPatch(r)

Next ==
  \/ \E p \in Presets : Create(p)
  \/ \E r \in Reqs : \/ Update(r) \/ Delete(r) \/ CreateTournament(r)
                     \/ PatchStructure(r) \/ PatchCut(r) \/ Proceed(r) \/ Fail(r)

Spec == Init /\ [][Next]_vars

-----------------------------------------------------------------------------

\* Every preset and every tournament has, as a whole, the levels of one request
\* that was accepted: never a mixture of two that ran at the same time, never half
\* of one, never none where a structure was copied (update's comment).
GridsAreWhole ==
  /\ \A p \in Presets : presets[p].status = "LISTED" =>
       \E s \in ValidSubmissions : presets[p].rows = ToSet(s)
  /\ \A t \in Tournaments : tours[t].status # "NONE" =>
       IF tours[t].structure = None
       THEN tours[t].grid = {} \/ \E s \in ValidSubmissions : tours[t].grid = ToSet(s)
       ELSE \E s \in ValidSubmissions : tours[t].grid = ToSet(s)

=============================================================================
