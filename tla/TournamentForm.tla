--------------------------- MODULE TournamentForm ---------------------------
(***************************************************************************)
(* The form in which an administrator sets a tournament up, and changes it *)
(* until somebody enters, in front of createTournament and                 *)
(* updateTournament.  The form sends all its fields, those left empty      *)
(* excepted, and the service merges them with what it has stored, as other *)
(* administrators do meanwhile.                                            *)
(***************************************************************************)
EXTENDS Integers

CONSTANTS None,
          Terms,            \* name, prices, stacks, sizes, start and grade: never empty
          Structures,       \* presets, which are their numbers of levels and keep them
          Limits            \* of re-entries, of levels, and the price of the bonus

VARIABLES tour,             \* the tournament, None before it is created
          wanted,           \* what the last form that was saved showed (of the model)
          shown,            \* the tournament as the page has it
          opened,           \* the form that is open: None, "create" or "edit"
          fields,           \* what is in it
          asked,            \* the request under way, and its answer
          gone              \* the presets that were deleted since they were listed

vars == <<tour, wanted, shown, opened, fields, asked, gone>>

\* An optional field that is left empty.
Empty == 0

Tours ==
  [terms : Terms \cup {Empty}, structure : Structures \cup {Empty}, reentry : BOOLEAN,
   most : Limits \cup {Empty}, until : Limits \cup {Empty}, bonus : Limits \cup {Empty},
   entered : BOOLEAN, started : BOOLEAN]

Blank == [terms |-> Empty, structure |-> Empty, reentry |-> FALSE, most |-> Empty,
          until |-> Empty, offers |-> FALSE, bonus |-> Empty]

Init ==
  /\ tour = None /\ wanted = None /\ shown = None
  /\ opened = None /\ fields = Blank /\ asked = None
  /\ gone = {}

-----------------------------------------------------------------------------
(* The form.                                                               *)

\* What is typed for a new tournament is kept while its form is closed, and also once
\* it is saved; the form of an edit is gone.
Closed == IF opened = "edit" THEN Blank ELSE fields

OpenCreate ==
  /\ opened = None /\ shown = None   \* one tournament in this instance
  /\ opened' = "create"
  /\ UNCHANGED <<tour, wanted, shown, fields, asked, gone>>

\* useTournamentFormState, from the tournament as the page has it by now.
Initial(t) ==
  [terms |-> t.terms, structure |-> t.structure, reentry |-> t.reentry, most |-> t.most,
   until |-> t.until, offers |-> t.bonus # Empty, bonus |-> t.bonus]

OpenEdit ==
  /\ opened = None /\ shown # None /\ ~shown.entered
  /\ opened' = "edit" /\ fields' = Initial(shown)
  /\ UNCHANGED <<tour, wanted, shown, asked, gone>>

Cancel ==
  /\ opened # None
  /\ opened' = None /\ fields' = Closed
  /\ UNCHANGED <<tour, wanted, shown, asked, gone>>

\* The limits are on show with re-entry, the price with the bonus; what is not on
\* show keeps what it had.
Typed(f) ==
  {[f EXCEPT !.terms = v] : v \in Terms}
    \cup {[f EXCEPT !.structure = v] : v \in Structures \cup {Empty}}
    \cup {[f EXCEPT !.reentry = v] : v \in BOOLEAN}
    \cup {[f EXCEPT !.offers = v] : v \in BOOLEAN}
    \cup (IF f.reentry
          THEN {[f EXCEPT !.most = v] : v \in Limits \cup {Empty}}
                 \cup {[f EXCEPT !.until = v] : v \in Limits \cup {Empty}}
          ELSE {})
    \cup (IF f.offers THEN {[f EXCEPT !.bonus = v] : v \in Limits} ELSE {})

Type ==
  /\ opened # None
  /\ fields' \in Typed(fields)
  /\ UNCHANGED <<tour, wanted, shown, opened, asked, gone>>

-----------------------------------------------------------------------------
(* toPayload.                                                              *)

\* Mutant: the limits travel whether or not re-entry is ticked.
AlwaysSent(f, limit) == limit

\* A limit travels with re-entry only.
LimitSent(f, limit) == IF f.reentry THEN limit ELSE Empty

\* Mutant: the price travels whether or not the bonus is ticked.
PriceTyped(f) == f.bonus

\* The price and the chips of the bonus travel together, or not at all.
BonusSent(f) == IF f.offers THEN f.bonus ELSE Empty

ToPayload(f) ==
  [terms |-> f.terms, structure |-> f.structure, reentry |-> f.reentry,
   most |-> LimitSent(f, f.most), until |-> LimitSent(f, f.until), bonus |-> BonusSent(f)]

\* What the form shows to its reader.
OnShow(op, f) ==
  [op |-> op, terms |-> f.terms, structure |-> f.structure, reentry |-> f.reentry,
   most |-> IF f.reentry THEN f.most ELSE Empty, until |-> IF f.reentry THEN f.until ELSE Empty,
   bonus |-> IF f.offers THEN f.bonus ELSE Empty]

\* handleSubmit, past the fields that are required.
Submit ==
  /\ opened # None /\ asked = None
  /\ fields.terms # Empty /\ (fields.offers => fields.bonus # Empty)
  /\ asked' = [op |-> opened, payload |-> ToPayload(fields), onShow |-> OnShow(opened, fields),
               answer |-> None]
  /\ UNCHANGED <<tour, wanted, shown, opened, fields, gone>>

-----------------------------------------------------------------------------
(* The service.                                                            *)

\* assertCoherentReentryConfig, on what will be stored.
Coherent(c) ==
  /\ ~c.reentry => c.most = Empty /\ c.until = Empty
  /\ c.structure # Empty => c.until <= c.structure

\* A field that is absent does not change.
Merged(t, p) ==
  LET kept(old, new) == IF new = Empty THEN old ELSE new
  IN  [t EXCEPT !.terms = p.terms, !.reentry = p.reentry,
                !.structure = kept(@, p.structure), !.most = kept(@, p.most),
                !.until = kept(@, p.until), !.bonus = kept(@, p.bonus)]

Created(p) ==
  [terms |-> p.terms, structure |-> p.structure, reentry |-> p.reentry, most |-> p.most,
   until |-> p.until, bonus |-> p.bonus, entered |-> FALSE, started |-> FALSE]

\* copyBlindLevels: a preset that is named and no longer there is a 404.
Found(p) == p.structure # Empty => p.structure \notin gone

\* A structure is asked for again only while the clock has not started.
Accepted(op, p) ==
  /\ Found(p)
  /\ IF op = "create" THEN Coherent(Created(p))
     ELSE ~tour.entered /\ (p.structure # Empty => ~tour.started) /\ Coherent(Merged(tour, p))

Stored(op, p) == IF op = "create" THEN Created(p) ELSE Merged(tour, p)

Check ==
  /\ asked # None /\ asked.answer = None
  /\ asked.op = "create" => tour = None   \* one tournament in this instance
  /\ asked' = [asked EXCEPT !.answer =
                 IF Accepted(asked.op, asked.payload) THEN "checked" ELSE "refused"]
  /\ UNCHANGED <<tour, wanted, shown, opened, fields, gone>>

\* The write of an edit looks again for entries, and at nothing else that was checked; the
\* foreign key of the preset is the database's.
Write ==
  /\ asked # None /\ asked.answer = "checked"
  /\ IF (asked.op = "create" \/ ~tour.entered) /\ Found(asked.payload)
     THEN /\ tour' = Stored(asked.op, asked.payload)
          /\ wanted' = asked.onShow
          /\ asked' = [asked EXCEPT !.answer = "saved"]
     ELSE /\ asked' = [asked EXCEPT !.answer = "refused"]
          /\ UNCHANGED <<tour, wanted>>
  /\ UNCHANGED <<shown, opened, fields, gone>>

\* Another administrator saves a form of his own.
Elsewhere ==
  /\ tour # None
  /\ \E terms \in Terms, limit \in Limits :
       LET f == [Initial(tour) EXCEPT !.terms = terms, !.reentry = TRUE, !.most = limit]
       IN  /\ Accepted("edit", ToPayload(f))
           /\ tour' = Stored("edit", ToPayload(f))
           /\ wanted' = OnShow("edit", f)
  /\ UNCHANGED <<shown, opened, fields, asked, gone>>

\* Somebody enters, or the clock is started.
GoOn ==
  /\ tour # None
  /\ \/ tour' = [tour EXCEPT !.entered = TRUE]
     \/ tour.structure # Empty /\ tour' = [tour EXCEPT !.started = TRUE]
  /\ UNCHANGED <<wanted, shown, opened, fields, asked, gone>>

\* BlindStructureService.delete, of a preset that no tournament names (its two statements
\* are in BlindStructures).
DeletePreset ==
  /\ \E s \in Structures :
       /\ tour # None => tour.structure # s
       /\ gone' = gone \cup {s}
  /\ UNCHANGED <<tour, wanted, shown, opened, fields, asked>>

-----------------------------------------------------------------------------
(* The answers.                                                            *)

\* Its form closes, and the page asks for the tournament again (Refresh).
Saved ==
  /\ asked # None /\ asked.answer = "saved"
  /\ IF opened = asked.op THEN opened' = None /\ fields' = Closed
     ELSE UNCHANGED <<opened, fields>>
  /\ asked' = None
  /\ UNCHANGED <<tour, wanted, shown, gone>>

\* Refused, or no answer: the form stays as it is.
Failed ==
  /\ asked # None /\ asked.answer # "checked"
  /\ asked' = None
  /\ UNCHANGED <<tour, wanted, shown, opened, fields, gone>>

\* The query of the page is answered.
Refresh ==
  /\ shown' = tour
  /\ UNCHANGED <<tour, wanted, opened, fields, asked, gone>>

Next ==
  \/ OpenCreate \/ OpenEdit \/ Cancel \/ Type \/ Submit \/ Check \/ Write \/ Elsewhere \/ GoOn
  \/ DeletePreset \/ Saved \/ Failed \/ Refresh

Spec == Init /\ [][Next]_vars

-----------------------------------------------------------------------------

\* What is stored is what the form that was saved last showed, as a whole and whatever
\* others saved before it: nothing that was unticked, and no mixture of two forms,
\* except that an optional field an edit showed empty keeps what was stored (comments
\* of toPayload and updateTournament).
StoredAsShown ==
  tour # None =>
    /\ tour.terms = wanted.terms /\ tour.reentry = wanted.reentry
    /\ \A field \in {"structure", "most", "until", "bonus"} :
         wanted[field] = tour[field] \/ (wanted.op = "edit" /\ wanted[field] = Empty)

\* With amounts and grade in order, a form for a new tournament is refused for its structure
\* only: it was deleted since it was listed, or it does not have the level that the form
\* shows as the last of re-entry (assertCoherentReentryConfig, copyBlindLevels).
CreationIsCoherent ==
  asked # None /\ asked.op = "create" /\ asked.answer = "refused" =>
    /\ asked.payload.structure # Empty
    /\ asked.payload.structure \in gone \/ asked.payload.until > asked.payload.structure
=============================================================================
