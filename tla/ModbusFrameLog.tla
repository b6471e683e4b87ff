--------------------------- MODULE ModbusFrameLog ---------------------------
(* The recording of Modbus frames and the panel that shows it.  Two threads *)
(* append: the one that makes a request and the serial port's worker.  The  *)
(* log is emptied as a whole when it is full or when the user says so, and  *)
(* the panel's timer copies out what it has not seen: ModbusFrameLog and    *)
(* ModbusLogPanel.  Every operator below holds the log's mutex once.        *)
EXTENDS Naturals, Sequences

CONSTANTS
  MaxEntries, \* m_MaxEntries
  MaxUses     \* bound: times the user presses a button of the recording

ASSUME LogAssumption == MaxEntries \in Nat /\ MaxUses \in Nat

VARIABLES
  frames,     \* m_Frames
  generation, \* m_FramesGeneration
  recording,  \* m_IsRecording
  cursor,     \* m_LogCursor of the panel
  view,       \* the rows of the panel's grid
  uses        \* times the user has pressed a button

log == <<frames, generation>>
panel == <<recording, cursor, view, uses>>

LogInit ==
  /\ frames = <<>> /\ generation = 0
  /\ recording \in BOOLEAN
  /\ cursor = [index |-> 0, generation |-> 0] /\ view = <<>>
  /\ uses = 0

(* Append; the callers have looked whether recording is on.                *)
RecordFrame(entry) == frames' = Append(frames, entry) /\ UNCHANGED generation

Discard == frames' = <<>> /\ generation' = generation + 1

(* Mutant of CheckMaxEntries: the cursors are not told.                    *)
CheckMaxEntriesQuietly ==
  IF Len(frames) >= MaxEntries THEN frames' = <<>> /\ UNCHANGED generation
                               ELSE UNCHANGED log

CheckMaxEntries == IF Len(frames) >= MaxEntries THEN Discard ELSE UNCHANGED log

-----------------------------------------------------------------------------
(* The GUI thread.                                                         *)

(* StartRecording, PauseRecording.                                         *)
SetRecording(on) ==
  /\ uses < MaxUses /\ uses' = uses + 1
  /\ recording' = on
  /\ UNCHANGED <<log, cursor, view>>

(* StopRecording leaves the grid to the timer; the Clear button does not.  *)
StopRecording ==
  /\ uses < MaxUses /\ uses' = uses + 1
  /\ recording' = FALSE
  /\ Discard
  /\ UNCHANGED <<cursor, view>>

ClearRecording ==
  /\ uses < MaxUses /\ uses' = uses + 1
  /\ view' = <<>>
  /\ Discard
  /\ UNCHANGED <<recording, cursor>>

(* On10MsTimer with TakeFramesSince.                                       *)
ShowNewFrames ==
  LET restarted == cursor.generation # generation
      from == IF restarted THEN 0 ELSE cursor.index
      taken == SubSeq(frames, from + 1, Len(frames))
  IN /\ view' = (IF restarted THEN <<>> ELSE view) \o taken
     /\ cursor' = [index |-> Len(frames), generation |-> generation]
     /\ UNCHANGED <<log, recording, uses>>

Gui == \/ \E on \in BOOLEAN : SetRecording(on)
       \/ StopRecording \/ ClearRecording \/ ShowNewFrames

-----------------------------------------------------------------------------
(* As long as the panel's cursor is in the present fill of the log, the    *)
(* grid shows exactly the entries up to it: none twice, none of an earlier *)
(* fill, none skipped, whoever has emptied the log meanwhile               *)
(* (ModbusFrameLog.hpp: "the generation makes that detectable").           *)
ViewMatchesLog ==
  cursor.generation = generation =>
    /\ cursor.index <= Len(frames)
    /\ view = SubSeq(frames, 1, cursor.index)
=============================================================================
