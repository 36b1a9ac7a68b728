------------------------------ MODULE NorArray ------------------------------
(***************************************************************************)
(* What a flash driver may rely on: a job is done at once and completely   *)
(* or, when the guest was reset in the middle of an earlier one, not at    *)
(* all.  In that case the chip may also spoil a word of its own, and is    *)
(* deaf to no more than one job unless that job leaves it so.              *)
(***************************************************************************)
EXTENDS Naturals

CONSTANTS
  Images,        \* contents the array may start with
  Job,           \* what a driver may ask for
  None,          \* no job
  Effect(_, _),  \* the array after a job
  Spoilt(_),     \* the contents a deaf chip may leave behind
  Deafens(_)     \* the job leaves a chip deaf that did not listen to it

VARIABLES
  mem,    \* the array
  saved,  \* its copy in the backing file
  job,    \* the job under way
  resets, \* how often the guest or the chip has started again
  deaf    \* the chip does not take the next command for what it is

Init == mem \in Images /\ saved = mem /\ job = None /\ resets = 0 /\ deaf = FALSE

Start ==
  /\ job = None
  /\ job' \in Job
  /\ UNCHANGED <<mem, saved, resets, deaf>>

Done ==
  /\ job # None /\ ~deaf
  /\ mem' = Effect(mem, job)
  /\ job' = None
  /\ UNCHANGED <<saved, resets, deaf>>

\* The job is lost.
Miss ==
  /\ job # None /\ deaf
  /\ job' = None
  /\ deaf' \in BOOLEAN
  /\ deaf' => Deafens(job)
  /\ UNCHANGED <<mem, saved, resets>>

\* A deaf chip takes a command for something else, or wakes up.
Confused ==
  /\ job # None /\ deaf
  /\ mem' = mem \/ mem' \in Spoilt(mem)
  /\ deaf' \in BOOLEAN
  /\ UNCHANGED <<saved, job, resets>>

\* The guest starts again.
Reset ==
  /\ resets' = resets + 1
  /\ job' = None
  /\ deaf' \in IF job = None THEN {deaf} ELSE BOOLEAN
  /\ UNCHANGED <<mem, saved>>

\* So does the chip, from the backing file.
Restart ==
  /\ resets' = resets + 1
  /\ saved' \in {mem, saved}
  /\ mem' = saved'
  /\ job' = None /\ deaf' = FALSE

Next == Start \/ Done \/ Miss \/ Confused \/ Reset \/ Restart

Spec == Init /\ [][Next]_<<mem, saved, job, resets, deaf>>
=============================================================================
