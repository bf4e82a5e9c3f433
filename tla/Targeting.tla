----------------------------- MODULE Targeting ------------------------------
(***************************************************************************)
(* The target cursor (CTarget, Target.cpp) and the macros that wait for    *)
(* it (MacroManager).  The server shows a cursor with a packet that        *)
(* carries an id, replaces it or takes it back; the player's clicks, the   *)
(* Escape key, the healing button and a running macro answer it; the house *)
(* designer borrows it for a tool of its own.                              *)
(*                                                                         *)
(* A packet is its cursor id; 0 stands for a buffer that was wiped.  The   *)
(* server numbers its cursors, so the order of the ids is the order of the *)
(* packets.  Time is in units of the shortest delay: a timer is the time   *)
(* left, not the tick at which it ends.                                    *)
(***************************************************************************)
EXTENDS Integers, Sequences

CONSTANTS MaxCursors,    \* bound: cursors the server shows
          MaxPresses,    \* bound: macros the player starts
          Macros,        \* macros, as sequences of their codes
          Delay,         \* what MC_DELAY waits
          TargetDelay,   \* WAIT_FOR_TARGET_DELAY
          BandageDelay,  \* the wait for a bandage's cursor, 500 ms
          HelperDelay    \* the healing button's target is good for 500 ms

Codes == {"say", "delay", "wait", "last", "self", "current",
          "bandageSelf", "bandageTarget"}

ASSUME TargetingBounds ==
  /\ MaxCursors \in Nat /\ MaxPresses \in Nat
  /\ Delay \in Nat /\ TargetDelay \in Nat /\ BandageDelay \in Nat /\ HelperDelay \in Nat
ASSUME MacrosAssumption == Macros \subseteq Seq(Codes)

VARIABLES Type,          \* 0 object, 1 object or tile, 2 a tool of the house designer
          CursorID, Targeting,
          m_Data,        \* the id in the packet to be sent
          shown,         \* ids the server has used so far
          withdrawn,     \* those of its packets that take a cursor back
          sent,          \* the ids of the answers sent
          house,         \* the house designer is open
          newTarget,     \* g_NewTargetSystem.Serial is set
          helper,        \* time left of g_PartyHelperTimer
          todo,          \* g_MacroPointer: what is left of the macro
          executing,     \* Execute is in its loop: nothing else runs
          WaitForTargetTimer,  \* 0 not set, 1 elapsed, otherwise the time left + 1
          m_NextTimer,         \* time left of MC_DELAY
          WaitingBandageTarget,
          presses

cursor      == <<Type, CursorID, Targeting, m_Data, sent>>
server      == <<shown, withdrawn>>
macro       == <<todo, executing, WaitForTargetTimer, m_NextTimer,
                 WaitingBandageTarget, presses>>
targetVars  == <<cursor, server, house, newTarget, helper, macro>>

-----------------------------------------------------------------------------
(* CTarget *)

ResetTarget ==
  /\ Type' = 0 /\ CursorID' = 0 /\ Targeting' = FALSE /\ m_Data' = 0
  /\ UNCHANGED sent

SendTargetKeepsTargeting(id) ==
  /\ sent' = IF Type = 2 THEN sent ELSE Append(sent, id)
  /\ m_Data' = 0
  /\ UNCHANGED <<Type, CursorID, Targeting>>

SendTarget(id) ==
  /\ sent' = IF Type = 2 THEN sent ELSE Append(sent, id)
  /\ m_Data' = 0
  /\ Targeting' = FALSE
  /\ UNCHANGED <<Type, CursorID>>

(* SendTargetObject, SendTargetTile and SendCancelTarget fill the server's *)
(* packet in; without a cursor they return.                                *)
Answer == IF Targeting THEN SendTarget(m_Data) ELSE UNCHANGED cursor

(* The last target's data, sent under this cursor's id. *)
SendLastTarget == IF Targeting THEN SendTarget(CursorID) ELSE UNCHANGED cursor

(* The designer takes the cursor over, the server's goes unanswered. *)
RequestFromCustomHouse ==
  /\ Type' = 2 /\ CursorID' = 0 /\ Targeting' = TRUE
  /\ UNCHANGED <<m_Data, sent>>

SetLastTargetObject == Type' = 0 /\ UNCHANGED <<CursorID, Targeting, m_Data, sent>>

-----------------------------------------------------------------------------
(* Packets *)

NextId == shown + 1

(* A cursor of type 0 or 1, or with CursorType 3, which takes the one that *)
(* is shown back.  The healing button's target answers it at once.         *)
Target ==
  /\ ~executing
  /\ NextId <= MaxCursors
  /\ shown' = NextId
  /\ \E type \in {0, 1}, takesBack \in BOOLEAN :
       /\ withdrawn' = IF takesBack THEN withdrawn \cup 1..NextId ELSE withdrawn
       /\ Type' = type /\ CursorID' = NextId
       /\ IF helper > 0 /\ ~takesBack
          THEN Targeting' = FALSE /\ m_Data' = 0 /\ sent' = Append(sent, NextId)
          ELSE Targeting' = ~takesBack /\ m_Data' = NextId /\ UNCHANGED sent
       /\ helper' = 0
  /\ UNCHANGED <<house, newTarget, macro>>

MultiPlacement ==
  /\ ~executing
  /\ NextId <= MaxCursors
  /\ shown' = NextId
  /\ Type' = 1 /\ CursorID' = NextId /\ Targeting' = TRUE /\ m_Data' = NextId
  /\ UNCHANGED <<sent, withdrawn, house, newTarget, helper, macro>>

\* DeathScreen, and the player's new body.
Die ==
  /\ ~executing
  /\ ResetTarget
  /\ UNCHANGED <<server, house, newTarget, helper, macro>>

(* The gumps go first: the designer's destructor still cancels the cursor. *)
(* The timers of the macro stay as they are.                               *)
EndWorld ==
  /\ ~executing
  /\ todo' = <<>>
  /\ Type' = 0 /\ CursorID' = 0 /\ Targeting' = FALSE /\ m_Data' = 0
  /\ sent' = IF house /\ Targeting /\ Type # 2 THEN Append(sent, m_Data) ELSE sent
  /\ house' = FALSE
  /\ UNCHANGED <<server, newTarget, helper, executing, WaitForTargetTimer,
                 m_NextTimer, WaitingBandageTarget, presses>>

-----------------------------------------------------------------------------
(* The player *)

\* A click on an object, a tile or a gump; with the designer open the world
\* is the designer's.
ClickTarget ==
  /\ ~executing /\ Targeting
  /\ Answer
  /\ UNCHANGED <<server, house, newTarget, helper, macro>>

Escape ==
  /\ ~executing
  /\ IF Targeting THEN Answer /\ UNCHANGED newTarget
                  ELSE newTarget' = FALSE /\ UNCHANGED cursor
  /\ UNCHANGED <<server, house, helper, macro>>

SelectNewTarget ==
  /\ ~executing
  /\ newTarget' = TRUE
  /\ UNCHANGED <<cursor, server, house, helper, macro>>

OpenHouse ==
  /\ ~executing /\ ~house
  /\ house' = TRUE
  /\ UNCHANGED <<cursor, server, newTarget, helper, macro>>

HouseTool ==
  /\ ~executing /\ house
  /\ RequestFromCustomHouse \/ Answer
  /\ UNCHANGED <<server, house, newTarget, helper, macro>>

CloseHouse ==
  /\ ~executing /\ house
  /\ house' = FALSE
  /\ Answer
  /\ UNCHANGED <<server, newTarget, helper, macro>>

(* A plugin sets the last target (COrion::ValueInt); it is assumed not to  *)
(* do so while a tool of the designer is chosen, whose cursor would become *)
(* one to be answered, with a packet nobody has filled in.                 *)
PluginLastTarget ==
  /\ ~executing /\ Type # 2
  /\ SetLastTargetObject
  /\ UNCHANGED <<server, house, newTarget, helper, macro>>

HealButton ==
  /\ ~executing
  /\ helper' = HelperDelay
  /\ UNCHANGED <<cursor, server, house, newTarget, macro>>

StartMacro ==
  /\ ~executing /\ presses < MaxPresses
  /\ presses' = presses + 1
  /\ \E m \in Macros : todo' = m
  /\ WaitingBandageTarget' = FALSE /\ WaitForTargetTimer' = 0
  /\ executing' = (todo' # <<>>)
  /\ UNCHANGED <<cursor, server, house, newTarget, helper, m_NextTimer>>

-----------------------------------------------------------------------------
(* MacroManager::Execute, every frame.  Process either goes on to the next *)
(* action or leaves the loop to try the same one in the next frame.        *)

Execute ==
  /\ ~executing /\ todo # <<>>
  /\ executing' = TRUE
  /\ UNCHANGED <<cursor, server, house, newTarget, helper, todo,
                 WaitForTargetTimer, m_NextTimer, WaitingBandageTarget, presses>>

ParseNext   == todo' = Tail(todo) /\ executing' = (Tail(todo) # <<>>)
BreakParser == todo' = todo /\ executing' = FALSE

ArmedEveryFrame(delay) == delay + 2

Armed(delay) == IF WaitForTargetTimer = 0 THEN delay + 2 ELSE WaitForTargetTimer

(* The wait the actions for the cursor share: until there is a cursor, or  *)
(* the timer has elapsed.                                                  *)
AwaitTarget(delay, answer) ==
  \/ /\ Targeting
     /\ answer
     /\ WaitForTargetTimer' = 0
     /\ ParseNext
  \/ /\ ~Targeting /\ Armed(delay) = 1
     /\ WaitForTargetTimer' = 0
     /\ ParseNext
     /\ UNCHANGED cursor
  \/ /\ ~Targeting /\ Armed(delay) > 1
     /\ WaitForTargetTimer' = Armed(delay)
     /\ BreakParser
     /\ UNCHANGED cursor

Goes == ParseNext /\ UNCHANGED <<cursor, WaitForTargetTimer>>

(* Clients before 5.0.2.0 double-click the bandage and wait for its cursor.*)
Bandage(answer) ==
  IF WaitingBandageTarget
  THEN /\ AwaitTarget(BandageDelay, answer)
       /\ WaitingBandageTarget' = (WaitForTargetTimer' # 0)
  ELSE \/ Goes /\ UNCHANGED WaitingBandageTarget
       \/ /\ WaitingBandageTarget' = TRUE
          /\ BreakParser
          /\ UNCHANGED <<cursor, WaitForTargetTimer>>

\* The other actions of the model: "say" and "delay" do not wait.
Perform(code) ==
  CASE code = "wait" -> AwaitTarget(TargetDelay, UNCHANGED cursor)
    [] code = "last" -> AwaitTarget(TargetDelay, IF Type # 0 THEN SendLastTarget ELSE Answer)
    [] code = "self" -> AwaitTarget(TargetDelay, Answer)
    [] code = "current" -> IF newTarget THEN AwaitTarget(TargetDelay, Answer) ELSE Goes
    [] OTHER -> Goes

ProcessMacro ==
  /\ executing
  /\ IF m_NextTimer > 0
     THEN /\ BreakParser
          /\ UNCHANGED <<cursor, WaitForTargetTimer, WaitingBandageTarget, m_NextTimer>>
     ELSE /\ m_NextTimer' = IF Head(todo) = "delay" THEN Delay ELSE 0
          /\ CASE Head(todo) = "bandageSelf" -> Bandage(Answer)
               [] Head(todo) = "bandageTarget" ->
                    Bandage(IF newTarget THEN Answer ELSE UNCHANGED cursor)
               [] OTHER -> Perform(Head(todo)) /\ UNCHANGED WaitingBandageTarget
  /\ UNCHANGED <<server, house, newTarget, helper, presses>>

Tick ==
  /\ ~executing
  /\ WaitForTargetTimer' = IF WaitForTargetTimer > 1 THEN WaitForTargetTimer - 1
                                                     ELSE WaitForTargetTimer
  /\ m_NextTimer' = IF m_NextTimer > 0 THEN m_NextTimer - 1 ELSE 0
  /\ helper' = IF helper > 0 THEN helper - 1 ELSE 0
  /\ UNCHANGED <<cursor, server, house, newTarget, todo, executing,
                 WaitingBandageTarget, presses>>

-----------------------------------------------------------------------------
TargetInit ==
  /\ Type = 0 /\ CursorID = 0 /\ Targeting = FALSE /\ m_Data = 0
  /\ shown = 0 /\ withdrawn = {} /\ sent = <<>>
  /\ house = FALSE /\ newTarget = FALSE /\ helper = 0
  /\ todo = <<>> /\ executing = FALSE
  /\ WaitForTargetTimer = 0 /\ m_NextTimer = 0 /\ WaitingBandageTarget = FALSE
  /\ presses = 0

TargetNext ==
  \/ Target \/ MultiPlacement \/ Die \/ EndWorld
  \/ ClickTarget \/ Escape \/ SelectNewTarget \/ PluginLastTarget
  \/ OpenHouse \/ HouseTool \/ CloseHouse
  \/ HealButton \/ StartMacro
  \/ Execute \/ ProcessMacro \/ Tick

(* Every frame runs the macro, and time passes between frames (Tick is not *)
(* possible inside Execute, so its fairness is strong); the rest is up to  *)
(* the player and the server.                                              *)
TargetFairness ==
  WF_targetVars(Execute) /\ WF_targetVars(ProcessMacro) /\ SF_targetVars(Tick)

TargetSpec == TargetInit /\ [][TargetNext]_targetVars /\ TargetFairness

-----------------------------------------------------------------------------
(* Properties *)

(* Whoever answers - a click, Escape, the healing button, a macro, the     *)
(* designer's end - each cursor of the server is answered at most once,    *)
(* under its own id, in the order the server showed them, and not after it *)
(* was taken back.  No packet is sent that the server did not ask for.     *)
AnsweredOnce ==
  /\ \A i \in 1..Len(sent) : sent[i] \in 1..shown
  /\ \A i, j \in 1..Len(sent) : i < j => sent[i] < sent[j]
  /\ Targeting /\ Type # 2 => m_Data \notin withdrawn /\ CursorID = m_Data

(* A macro ends, whatever it waits for, unless the player starts another:  *)
(* no combination of cursors, delays and timers left over makes it wait    *)
(* for ever.                                                               *)
MacroEnds == todo # <<>> ~> todo = <<>>
=============================================================================
