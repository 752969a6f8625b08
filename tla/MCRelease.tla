------------------------------ MODULE MCRelease ------------------------------
EXTENDS ReleaseLedger

CONSTANTS io, task, other, Here, There

MCCapability == {io, task, other}
MCPlatform == {Here, There}

\* 1 is the subject, 2 and 3 rivals for the same task, 4 is for another one,
\* 5 is the I/O adapter and 6, the default of the other one, is in no registry.
MCImplId == 1 .. 6
MCDefault == [c \in MCCapability |-> IF c = task THEN 1 ELSE IF c = io THEN 5 ELSE 6]

Passing(S) == [a \in Axes |-> IF a \in S THEN "pass" ELSE "absent"]
Rival(cap, status, axes) ==
  [capability |-> cap, status |-> status, evidence |-> Passing(axes),
   artifact |-> status # "candidate", unsafe |-> status = "candidate", pure |-> cap = task]
MCRivals ==
  [id \in {2, 3, 4} |->
     CASE id = 2 -> Rival(task, "conformant", {"build", "conformance"})
       [] id = 3 -> Rival(task, "candidate", {"build"})
       [] id = 4 -> Rival(other, "conformant", {"build", "conformance", "license"})]

MCPolicies == {Dev, Default, Release, [Dev EXCEPT !.prefer = <<4, 2>>], [Release EXCEPT !.prefer = <<1>>]}
MCProfiles ==
  {[noUnsafe |-> u, pureRust |-> u, at |-> [p \in Places |-> IF p = "os" THEN Any ELSE w]]
     : u \in BOOLEAN, w \in {Here, Any}}
MCBenches ==
  {[implementation |-> 2, ok |-> TRUE, at |-> [p \in Places |-> There]],
   [implementation |-> 3, ok |-> TRUE, at |-> [p \in Places |-> IF p = "arch" THEN Here ELSE There]],
   [implementation |-> 1, ok |-> FALSE, at |-> [p \in Places |-> Here]]}

Selecting(cap, id) == [capability |-> cap, implementation |-> id]
Document(first, second, io_, profile) ==
  [instances |-> [i \in 1 .. 2 |-> IF i = 1 THEN first ELSE second], io |-> io_,
   profile |-> profile]

\* The last three call a transform I/O, so that a release may leave it to the
\* catalog: alone, and beside an instance of the same or another capability.
MCDocuments ==
  {Document(Selecting(io, pass), Selecting(task, id), {io}, p)
     : pass \in {NoImpl, 5}, id \in {NoImpl, 1, 2, 4, 6}, p \in {Any, "release", "dev"}}
  \cup {Document(Selecting(other, 4), Selecting(task, 1), {io}, "check"),
        Document(Selecting(io, NoImpl), Selecting(task, NoImpl), {io, task}, Any),
        Document(Selecting(task, 2), Selecting(task, NoImpl), {io, task}, Any),
        Document(Selecting(task, 2), Selecting(other, NoImpl), {io, other}, "release")}
=============================================================================
