------------------------------- MODULE MCBuilder -------------------------------
(* A builder beside the api, for TLC: its constants and what is checked of it. *)
EXTENDS Naturals, Sequences

CONSTANTS
    PageRecord, RowRecords, FirstRecords,   \* what a builder edits: a page and its rows
    Settings, MaxStamps                     \* its clock, and bounds: see Builder

VARIABLES
    setting, clock, table, made, local, previous, actions, applied, effect, versions,
    saves, writes, sent, inbox, shown, refused, bounds

builder == <<setting, clock, table, made, local, previous, actions, applied, effect, versions,
             saves, writes, sent, inbox, shown, refused, bounds>>

Built == INSTANCE Builder
    WITH Page <- PageRecord, Row <- RowRecords, First <- FirstRecords, MaxClock <- MaxStamps,
         Prompt <- TRUE

\* A builder alone, whose clock is ahead of the api's or not; one beside
\* another, where a write may fail; and one whose socket is lost.
OnlyOne(skew) == [skew |-> skew, edits |-> 3, others |-> 0, faults |-> 0, losses |-> 0]
Beside        == [skew |-> "true", edits |-> 2, others |-> 1, faults |-> 1, losses |-> 0]
Lossy         == [skew |-> "true", edits |-> 1, others |-> 1, faults |-> 0, losses |-> 1]
FourSettings  == {OnlyOne("ahead"), OnlyOne("true"), Beside, Lossy}

ASSUME BuiltAssumption == Built!BuilderAssumption

-----------------------------------------------------------------------------
(* The properties: see Builder. *)

Converges       == Built!Converges
NoEcho          == Built!NoEcho
NoConflictAlone == Built!NoConflictAlone
SavesEndWhole   == Built!ServerIsWhole /\ Built!NoCallHangs

=============================================================================
