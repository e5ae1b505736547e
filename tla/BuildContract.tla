---------------------------- MODULE BuildContract ----------------------------
(***************************************************************************)
(* What the services rely on when they deploy the image output of a Build  *)
(* resource (Create and Update of provider/defang{aws,gcp,azure,scaleway}/ *)
(* build.go), whichever cloud runs it: a call either fails, or answers     *)
(* with an image that this very call had built and pushed.                 *)
(***************************************************************************)
CONSTANTS
  Calls,     \* the calls of Create and Update
  Images,    \* the images that builds push
  NoAnswer,  \* the call has not returned
  Failed     \* it returned an error

VARIABLES
  made,      \* for each call, the images its builds pushed
  answer     \* what it returned: an image, NoAnswer yet or Failed

Init ==
  /\ made = [c \in Calls |-> {}]
  /\ answer = [c \in Calls |-> NoAnswer]

\* A new image reaches the registry, possibly after its call gave up on it.
Push(c, i) ==
  /\ \A d \in Calls : i \notin made[d]
  /\ made' = [made EXCEPT ![c] = @ \union {i}]
  /\ UNCHANGED answer

Answer(c) ==
  /\ answer[c] = NoAnswer
  /\ \E a \in made[c] \union {Failed} : answer' = [answer EXCEPT ![c] = a]
  /\ UNCHANGED made

Next == \E c \in Calls : Answer(c) \/ \E i \in Images : Push(c, i)

Spec == Init /\ [][Next]_<<made, answer>>

==============================================================================
