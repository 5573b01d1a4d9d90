------------------------------- MODULE Preview -------------------------------
(***************************************************************************)
(* The live preview: the admin's form (views.tsx: LivePreview) and the     *)
(* page it hosts in a frame (visual-editing: connectVisualEditing), which  *)
(* exchange messages.  The form is posted to the frame, at most once per   *)
(* animation frame and not twice in a row the same; text edited in the     *)
(* page is patched back into the form, and while it is being edited the    *)
(* form is not posted.                                                     *)
(*                                                                         *)
(* The form is one text field, which the page shows.                       *)
(***************************************************************************)
EXTENDS Naturals, Sequences

CONSTANTS
  Texts,
  NotNumbers,   (* texts that are no value of the field                    *)
  LoadsEarly,   (* may "load" fire before the page's script listens?       *)
  MaxInputs,    (* bound: keystrokes and double clicks                     *)
  MaxReloads,   (* bound: the page reloads in its frame                    *)
  None

PreviewAssumption ==
  /\ None \notin Texts /\ NotNumbers \subseteq Texts /\ Texts \ NotNumbers # {}
  /\ LoadsEarly \in BOOLEAN /\ MaxInputs \in Nat /\ MaxReloads \in Nat

VARIABLES
  form,         (* the form's state                                        *)
  rendered,     (* the form as last rendered: formRef                      *)
  ready, paused, scheduled, lastSent,
  page,         (* the page in the frame                                   *)
  down, up,     (* messages under way, to the page and to the form         *)
  inputs, reloads

editor == <<form, rendered, ready, paused, scheduled, lastSent>>
bounds == <<inputs, reloads>>
vars == <<editor, page, down, up, bounds>>

Values == Texts \ NotNumbers

(* data is what the page was sent, shown the text of its element; while it *)
(* is edited, original is what it was, and timer is set when the last      *)
(* keystroke has not been patched yet.                                     *)
NewPage == [listens |-> FALSE, loaded |-> FALSE, data |-> None, shown |-> None,
            edited |-> FALSE, original |-> None, timer |-> FALSE]

Init ==
  /\ form \in Values /\ rendered = form
  /\ ready = FALSE /\ paused = FALSE /\ scheduled = FALSE /\ lastSent = None
  /\ page = NewPage /\ down = <<>> /\ up = <<>>
  /\ inputs = 0 /\ reloads = 0

-----------------------------------------------------------------------------
(* The form.                                                               *)

(* Variant: what is held back while the page is edited counts as sent.     *)
PostRemembers(p) ==
  /\ lastSent' = rendered
  /\ down' = IF p \/ rendered = lastSent THEN down ELSE Append(down, rendered)

(* post: p is whether it is paused.                                        *)
Post(p) ==
  IF p \/ rendered = lastSent
  THEN UNCHANGED <<lastSent, down>>
  ELSE lastSent' = rendered /\ down' = Append(down, rendered)

Type ==
  /\ inputs < MaxInputs /\ inputs' = inputs + 1
  /\ form' \in Values \ {form}
  /\ UNCHANGED <<rendered, ready, paused, scheduled, lastSent, page, down, up, reloads>>

(* React renders, and the effect on the form schedules a post.             *)
Render ==
  /\ rendered # form /\ rendered' = form
  /\ scheduled' = (scheduled \/ ready)
  /\ UNCHANGED <<form, ready, paused, lastSent, page, down, up, bounds>>

AnimationFrame ==
  /\ scheduled /\ scheduled' = FALSE
  /\ Post(paused)
  /\ UNCHANGED <<form, rendered, ready, paused, page, up, bounds>>

(* The frame's onLoad.                                                     *)
Load ==
  /\ ~ page.loaded /\ (LoadsEarly \/ page.listens)
  /\ page' = [page EXCEPT !.loaded = TRUE]
  /\ ready' = TRUE /\ Post(paused)
  /\ UNCHANGED <<form, rendered, paused, scheduled, up, bounds>>

Receive(kind) == up # <<>> /\ Head(up).kind = kind /\ up' = Tail(up)

OnReady ==
  /\ Receive("ready")
  /\ ready' = TRUE /\ Post(paused)
  /\ UNCHANGED <<form, rendered, paused, scheduled, page, bounds>>

OnEditStart ==
  /\ Receive("edit-start") /\ paused' = TRUE
  /\ UNCHANGED <<form, rendered, ready, scheduled, lastSent, page, down, bounds>>

OnPatch ==
  /\ Receive("patch") /\ form' = Head(up).value
  /\ UNCHANGED <<rendered, ready, paused, scheduled, lastSent, page, down, bounds>>

OnEditEnd ==
  /\ Receive("edit-end") /\ paused' = FALSE
  /\ Post(FALSE)
  /\ UNCHANGED <<form, rendered, ready, scheduled, page, bounds>>

-----------------------------------------------------------------------------
(* The page.                                                               *)

Message(kind) == [kind |-> kind, value |-> None]

(* The listener is attached, and the form is told so.                      *)
Listen ==
  /\ ~ page.listens
  /\ page' = [page EXCEPT !.listens = TRUE]
  /\ up' = Append(up, Message("ready"))
  /\ UNCHANGED <<editor, down, bounds>>

(* A message that nobody listens for is gone.  The page renders data.      *)
OnMessage ==
  /\ down # <<>> /\ down' = Tail(down)
  /\ page' = IF page.listens THEN [page EXCEPT !.data = Head(down), !.shown = Head(down)] ELSE page
  /\ UNCHANGED <<editor, up, bounds>>

DoubleClick ==
  /\ page.listens /\ ~ page.edited /\ page.data # None
  /\ inputs < MaxInputs /\ inputs' = inputs + 1
  /\ page' = [page EXCEPT !.edited = TRUE, !.original = page.shown]
  /\ up' = Append(up, Message("edit-start"))
  /\ UNCHANGED <<editor, down, reloads>>

Input ==
  /\ page.edited /\ inputs < MaxInputs /\ inputs' = inputs + 1
  /\ \E t \in Texts \ {page.shown} : page' = [page EXCEPT !.shown = t, !.timer = TRUE]
  /\ UNCHANGED <<editor, down, up, reloads>>

(* Variant: any text is patched.                                           *)
PatchAnyText == <<[kind |-> "patch", value |-> page.shown]>>

(* flushPatch: a text that is not a value is not patched.                  *)
Patch == IF page.shown \in Values THEN <<[kind |-> "patch", value |-> page.shown]>> ELSE <<>>

Debounced ==
  /\ page.edited /\ page.timer
  /\ page' = [page EXCEPT !.timer = FALSE]
  /\ up' = up \o Patch
  /\ UNCHANGED <<editor, down, bounds>>

Ended == [page EXCEPT !.edited = FALSE, !.original = None, !.timer = FALSE]

(* Blur, Enter, or a click on another text.                                *)
EndEdit ==
  /\ page.edited
  /\ page' = Ended
  /\ up' = up \o Patch \o <<Message("edit-end")>>
  /\ UNCHANGED <<editor, down, bounds>>

(* Escape: the text is as it was, what was patched before stays patched.   *)
CancelEdit ==
  /\ page.edited
  /\ page' = [Ended EXCEPT !.shown = page.original]
  /\ up' = Append(up, Message("edit-end"))
  /\ UNCHANGED <<editor, down, bounds>>

Reload ==
  /\ reloads < MaxReloads /\ reloads' = reloads + 1
  /\ page' = NewPage
  /\ UNCHANGED <<editor, down, up, inputs>>

Next ==
  \/ Type \/ Render \/ AnimationFrame \/ Load
  \/ OnReady \/ OnEditStart \/ OnPatch \/ OnEditEnd
  \/ Listen \/ OnMessage \/ DoubleClick \/ Input \/ Debounced \/ EndEdit \/ CancelEdit \/ Reload

Spec == Init /\ [][Next]_vars

-----------------------------------------------------------------------------
(* Properties.                                                             *)

TypeOK ==
  /\ form \in Values /\ rendered \in Values /\ lastSent \in Values \union {None}
  /\ {ready, paused, scheduled} \subseteq BOOLEAN
  /\ page \in [listens: BOOLEAN, loaded: BOOLEAN, data: Values \union {None}, shown: Texts \union {None},
               edited: BOOLEAN, original: Texts \union {None}, timer: BOOLEAN]
  /\ down \in Seq(Values)
  /\ up \in Seq([kind: {"ready", "edit-start", "patch", "edit-end"}, value: Values \union {None}])
  /\ inputs \in 0..MaxInputs /\ reloads \in 0..MaxReloads

(* Nothing is under way, and nobody is editing the page.                   *)
Settled ==
  /\ page.loaded /\ page.listens /\ ~ page.edited
  /\ down = <<>> /\ up = <<>> /\ ~ scheduled /\ rendered = form

(* When the exchange comes to rest, the page has been sent the form as it  *)
(* is: the last keystroke lands, whichever side it was made on, whatever   *)
(* was held back, coalesced or left out as a repetition on the way - as    *)
(* long as the page is not reloaded.                                       *)
SettledHasForm == Settled /\ reloads = 0 => page.data = form

(* A page that announced that it listens has been answered with data.      *)
NotLeftBlank == Settled => page.data # None
=============================================================================
