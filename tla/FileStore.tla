----------------------------- MODULE FileStore -----------------------------
(***************************************************************************)
(* What a filesystem promises to the user of the shell, drive by drive: a  *)
(* command changes one file of one drive to exactly the content it was     *)
(* given (or to none) and has done so when it ends; mounts and switches of *)
(* drives change nothing; a power loss touches at most the file that was   *)
(* being changed (and empties RAM disks).  The promise covers the drives   *)
(* in trusted only.                                                        *)
(***************************************************************************)
EXTENDS Integers

CONSTANTS Drives,     \* the drives
          Volatile,   \* the drives whose contents a power loss erases
          Names,      \* file names
          Contents,   \* contents a command can give a file
          NoFile      \* the content of a name that does not exist

VARIABLES files,      \* files[d][n]: the content of file n of drive d
          busy,       \* the change under way, as a set of at most one
          trusted     \* the drives the promise covers

Changes == [drive : Drives, name : Names, new : Contents \cup {NoFile}]

NoFiles == [n \in Names |-> NoFile]

Init == files = [d \in Drives |-> NoFiles] /\ busy = {}

\* The drives for which the promise covers a step from its start to its end.
Covered == trusted \cap trusted'

Keep(D) == \A d \in D \cap Covered : files'[d] = files[d]

\* A command starts; it may take effect at once or later, and once more when it
\* writes the same again.
Begin(c) == busy = {} /\ busy' = {c} /\ Keep(Drives)

Apply(c) ==
  /\ busy \subseteq {c} /\ busy' = {c}
  /\ c.drive \in Covered => files'[c.drive] = [files[c.drive] EXCEPT ![c.name] = c.new]
  /\ Keep(Drives \ {c.drive})

\* A command that ends has taken effect.
Finish(c) ==
  /\ busy = {c} /\ busy' = {}
  /\ c.drive \in Covered => files[c.drive][c.name] = c.new
  /\ Keep(Drives)

\* A driver of a RAM disk is loaded again and starts from blank memory.
Erase(d) ==
  /\ d \in Volatile
  /\ busy = {} /\ busy' = {}
  /\ files'[d] = NoFiles
  /\ Keep(Drives \ {d})

PowerLoss ==
  /\ busy' = {}
  /\ \A d \in Covered \cap Volatile : files'[d] = NoFiles
  /\ \A d \in Covered \ Volatile, n \in Names :
       files'[d][n] # files[d][n] => \E c \in busy : c.drive = d /\ c.name = n

Idle == busy' = busy /\ Keep(Drives)

Next ==
  \/ \E c \in Changes : Begin(c) \/ Apply(c) \/ Finish(c)
  \/ \E d \in Drives : Erase(d)
  \/ PowerLoss
  \/ Idle

Spec == Init /\ [][Next]_<<files, busy, trusted>>
=============================================================================
