---------------------------- MODULE MousePointers ----------------------------
(***************************************************************************)
(* The pointers the mouse leaves behind: g_SelectedObject (what is under   *)
(* it), g_LastSelectedObject, g_PressedObject (what the left and the right *)
(* button went down on) and g_ClickObject (a click that waits to become a  *)
(* double click).  Each is a raw pointer to an object of the world or to   *)
(* an element of a gump, with the gump; each is used by later frames and   *)
(* later input, and packets delete objects and gumps in between.           *)
(*                                                                         *)
(* An address is free, or holds an object of the world, or an element of a *)
(* gump; a freed address is used again.  A modal gump blocks the game; the *)
(* blocked screen selects among modal gumps only.  The middle button and   *)
(* the gump of the game screen itself, which is never deleted, are left    *)
(* out.                                                                    *)
(***************************************************************************)
CONSTANTS Addresses, Gumps,
          Modal,              \* the gumps that are modal
          InWorld, Free,      \* what an address holds besides elements
          NoObject            \* nullptr

ASSUME ModalAssumption == Modal \subseteq Gumps
ASSUME DistinctAssumption ==
  /\ InWorld \notin Gumps /\ Free \notin Gumps /\ InWorld # Free
  /\ NoObject \notin Addresses /\ NoObject \notin Gumps

VARIABLES owner,    \* what is at each address: InWorld, Free or the gump
          opened,   \* the open gumps
          wants,    \* gumps with WantUpdateContent
          blocked,  \* g_GameState is GS_GAME_BLOCKED, not GS_GAME
          points    \* the pointers

mouseVars == <<owner, opened, wants, blocked, points>>

Buttons == {"left", "right"}
Slots   == {"selected", "last", "click"} \cup Buttons

Pointer(a, g) == [object |-> a, gump |-> g]
Null          == Pointer(NoObject, NoObject)

-----------------------------------------------------------------------------
(* Destructors *)

(* ~CRenderObject of the objects at S. Clear(obj) of a pressed object      *)
(* leaves its gump.                                                        *)
Freed(p, S) ==
  [s \in Slots |-> IF p[s].object \notin S THEN p[s]
                   ELSE IF s \in Buttons THEN Pointer(NoObject, p[s].gump)
                   ELSE Null]

\* The first half of ~CGump; its elements are deleted after it.
Forget(p, g) == [s \in Slots |-> IF p[s].gump = g THEN Null ELSE p[s]]

Elements(R) == {a \in Addresses : owner[a] \in R}

(* UpdateContent of the gumps R: the elements are deleted and built anew,  *)
(* perhaps at the same addresses.                                          *)
UpdateContent(R) ==
  /\ wants' = wants \ R
  /\ owner' \in [Addresses -> Gumps \cup {InWorld, Free}]
  /\ \A a \in Addresses :
       IF owner[a] \in R \cup {Free} THEN owner'[a] \in R \cup {Free}
                                     ELSE owner'[a] = owner[a]

-----------------------------------------------------------------------------
(* SelectObject of the game screen or the blocked screen: every gump of    *)
(* the screen that is displayed and wants to is updated, the topmost thing *)
(* under the mouse is selected.                                            *)

Level == IF blocked THEN Modal ELSE Gumps \ Modal

Displayed == SUBSET (wants \cap opened \cap Level)

\* What may be under the mouse after the update.
Hits ==
  {Null} \cup {Pointer(a, owner'[a]) : a \in {b \in Addresses : owner'[b] \in Level}}
         \cup {Pointer(a, NoObject) : a \in {b \in Addresses : owner'[b] = InWorld /\ ~blocked}}

Selected(p, R, hit) ==
  [Freed([p EXCEPT !["selected"] = Null], Elements(R))
     EXCEPT !["selected"] = hit, !["last"] = hit]

-----------------------------------------------------------------------------
(* The player *)

\* Also EmulateOnLeftMouseButtonDown, by which a dragged thing opens a gump.
MouseButtonDown(b) ==
  /\ \E R \in Displayed :
       /\ UpdateContent(R)
       /\ \E hit \in Hits : points' = [Selected(points, R, hit) EXCEPT ![b] = hit]
  /\ UNCHANGED <<opened, blocked>>

(* A release may begin a delayed click, on an object of the world or on    *)
(* the element the button went down on.                                    *)
MouseButtonUp(b) ==
  /\ \E R \in Displayed :
       /\ UpdateContent(R)
       /\ \E hit \in Hits :
            LET p == Selected(points, R, hit)
            IN \/ points' = [p EXCEPT ![b] = Null]
               \/ /\ b = "left" /\ ~blocked /\ p["click"].object = NoObject
                  /\ \/ /\ p["left"].object # NoObject /\ p["left"].gump # NoObject
                        /\ points' = [p EXCEPT !["left"] = Null, !["click"] = p["left"]]
                     \/ \E a \in Addresses :
                          /\ owner'[a] = InWorld
                          /\ points' = [p EXCEPT !["left"] = Null,
                                                 !["click"] = Pointer(a, NoObject)]
  /\ UNCHANGED <<opened, blocked>>

\* The double click that is handled ends the press and the delayed click.
DoubleClick(b) ==
  /\ \E R \in Displayed :
       /\ UpdateContent(R)
       /\ \E hit \in Hits :
            /\ hit # Null
            /\ points' = [s \in Slots |-> IF s = b \/ (s = "click" /\ b = "left") THEN Null
                                          ELSE Selected(points, R, hit)[s]]
  /\ UNCHANGED <<opened, blocked>>

\* PickupItem of what is dragged.
DragItem ==
  /\ ~blocked
  /\ points["left"].object # NoObject
  /\ points' = [points EXCEPT !["left"] = Null]
  /\ UNCHANGED <<owner, opened, wants, blocked>>

-----------------------------------------------------------------------------
(* Frames *)

ProcessDelayedClicks ==
  /\ ~blocked
  /\ points["click"].object # NoObject
  /\ points' = [points EXCEPT !["click"] = Null]
  /\ UNCHANGED <<owner, opened, wants, blocked>>

FrameSelect ==
  /\ ~blocked
  /\ \E R \in Displayed :
       /\ UpdateContent(R)
       /\ \E hit \in Hits : points' = Selected(points, R, hit)
  /\ UNCHANGED <<opened, blocked>>

\* CGameScreen::Render draws the gumps, which updates those that want it.
Render ==
  /\ ~blocked
  /\ \E R \in Displayed \ {{}} :
       /\ UpdateContent(R)
       /\ points' = Freed(points, Elements(R))
  /\ UNCHANGED <<opened, blocked>>

(* The same of a blocked game: while the game is drawn the selected and    *)
(* the pressed pointers are put aside, where no destructor finds them;     *)
(* then they are put back and the blocked screen selects.                  *)
RenderBlocked ==
  /\ blocked
  /\ \E R \in SUBSET (wants \cap opened) :
       /\ UpdateContent(R)
       /\ \E hit \in Hits :
            LET drawn == Freed([s \in Slots |-> IF s \in Buttons \cup {"selected"} THEN Null
                                                ELSE points[s]],
                               Elements(R \ Modal))
                back  == [s \in Slots |-> IF s \in Buttons THEN points[s] ELSE drawn[s]]
            IN points' = Selected(back, R \cap Modal, hit)
  /\ UNCHANGED <<opened, blocked>>

-----------------------------------------------------------------------------
(* Packets, and what the player's choices make of the world and the gumps. *)

InitScreenKeepsPressed(p) ==
  [s \in Slots |-> IF s \in {"selected", "last"} THEN Null ELSE p[s]]

InitScreen(p) == [s \in Slots |-> IF s = "click" THEN p[s] ELSE Null]

CreateObject ==
  /\ \E a \in Addresses : owner[a] = Free /\ owner' = [owner EXCEPT ![a] = InWorld]
  /\ UNCHANGED <<opened, wants, blocked, points>>

\* An object goes with what it holds.
DeleteObjects ==
  /\ \E S \in SUBSET Elements({InWorld}) \ {{}} :
       /\ owner' = [a \in Addresses |-> IF a \in S THEN Free ELSE owner[a]]
       /\ points' = Freed(points, S)
  /\ UNCHANGED <<opened, wants, blocked>>

(* A modal gump blocks the game through InitScreen, but for a menu that    *)
(* opens while another modal gump is there.                                *)
OpenGump(g) ==
  /\ g \notin opened
  /\ opened' = opened \cup {g} /\ wants' = wants \cup {g}
  /\ \/ g \in Modal /\ blocked' = TRUE /\ points' = InitScreen(points)
     \/ g \notin Modal /\ UNCHANGED <<blocked, points>>
     \/ g \in Modal /\ opened \cap Modal # {} /\ UNCHANGED <<blocked, points>>
  /\ UNCHANGED owner

WantUpdateContent(g) ==
  /\ g \in opened \ wants
  /\ wants' = wants \cup {g}
  /\ UNCHANGED <<owner, opened, blocked, points>>

CloseGump(g) ==
  /\ g \in opened
  /\ opened' = opened \ {g} /\ wants' = wants \ {g}
  /\ owner' = [a \in Addresses |-> IF owner[a] = g THEN Free ELSE owner[a]]
  /\ points' = Freed(Forget(points, g), Elements({g}))
  /\ blocked' = IF g \in Modal /\ opened' \cap Modal = {} THEN FALSE ELSE blocked

\* LoginComplete: InitScreen(GS_GAME), although a modal gump may be open.
LoginComplete ==
  /\ blocked' = FALSE /\ points' = InitScreen(points)
  /\ UNCHANGED <<owner, opened, wants>>

-----------------------------------------------------------------------------
MouseInit ==
  /\ owner = [a \in Addresses |-> Free]
  /\ opened = {} /\ wants = {} /\ blocked = FALSE
  /\ points = [s \in Slots |-> Null]

MouseNext ==
  \/ \E b \in Buttons : MouseButtonDown(b) \/ MouseButtonUp(b) \/ DoubleClick(b)
  \/ DragItem \/ ProcessDelayedClicks \/ FrameSelect \/ Render \/ RenderBlocked
  \/ CreateObject \/ DeleteObjects \/ LoginComplete
  \/ \E g \in Gumps : OpenGump(g) \/ WantUpdateContent(g) \/ CloseGump(g)

MouseSpec == MouseInit /\ [][MouseNext]_mouseVars

-----------------------------------------------------------------------------
(* Properties *)

(* Whatever is deleted between two uses of the mouse, no pointer it left   *)
(* behind is stale: its gump is open, and its object is where the pointer  *)
(* says, in that gump or in the world.  In a blocked game this rests on    *)
(* InitScreen having forgotten what was pressed before: what Render puts   *)
(* aside is of a modal gump, which it does not update.                     *)
PointersLive ==
  \A s \in Slots :
    /\ points[s].gump # NoObject => points[s].gump \in opened
    /\ points[s].object # NoObject =>
         owner[points[s].object] =
           (IF points[s].gump = NoObject THEN InWorld ELSE points[s].gump)
=============================================================================
