--------------------------- MODULE ChallengeWindow ---------------------------
(***************************************************************************)
(* What curve publication promises its readers, whatever the accounts,     *)
(* instructions and timestamps are: a register is opened with a content,   *)
(* stands open to rejection for exactly Window units of time, and is       *)
(* accepted only afterwards and only with the content it was opened with.  *)
(* Opening again starts from nothing: a new content earns its own window.  *)
(* A register may be voided at any time, and promises nothing until it is  *)
(* opened again.                                                           *)
(***************************************************************************)
EXTENDS Naturals

CONSTANTS
  Registers,   \* what is published, each register on its own
  Contents,    \* what a register may be opened with
  Nothing,     \* the content of a register never opened
  Window       \* how long a content can be rejected

VARIABLES
  phase,       \* phase[r]: one of Phases
  content,     \* content[r]
  age          \* age[r]: time since r was opened, up to Window, while open

windowVars == <<phase, content, age>>

Phases == {"blank", "open", "accepted", "rejected", "void"}

\* The age of a register after d more units of time; it saturates at Window.
Older(r, d) == IF age[r] + d < Window THEN age[r] + d ELSE Window

Init ==
  /\ phase = [r \in Registers |-> "blank"]
  /\ content = [r \in Registers |-> Nothing]
  /\ age = [r \in Registers |-> 0]

Open(r, c) ==
  /\ phase' = [phase EXCEPT ![r] = "open"]
  /\ content' = [content EXCEPT ![r] = c]
  /\ age' = [age EXCEPT ![r] = 0]

Accept(r) ==
  /\ phase[r] = "open"
  /\ age[r] = Window
  /\ phase' = [phase EXCEPT ![r] = "accepted"]
  /\ age' = [age EXCEPT ![r] = 0]
  /\ UNCHANGED content

Reject(r) ==
  /\ phase[r] = "open"
  /\ age[r] < Window
  /\ phase' = [phase EXCEPT ![r] = "rejected"]
  /\ age' = [age EXCEPT ![r] = 0]
  /\ UNCHANGED content

Void(r) ==
  /\ phase' = [phase EXCEPT ![r] = "void"]
  /\ content' = [content EXCEPT ![r] = Nothing]
  /\ age' = [age EXCEPT ![r] = 0]

\* Time passes for every open register alike; no wait longer than Window
\* can be told from one of Window.
Wait(d) ==
  /\ age' = [r \in Registers |-> IF phase[r] = "open" THEN Older(r, d) ELSE age[r]]
  /\ UNCHANGED <<phase, content>>

Next ==
  \/ \E r \in Registers, c \in Contents : Open(r, c)
  \/ \E r \in Registers : Accept(r) \/ Reject(r) \/ Void(r)
  \/ \E d \in 1..Window : Wait(d)

Spec == Init /\ [][Next]_windowVars

=============================================================================
