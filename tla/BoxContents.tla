---------------------------- MODULE BoxContents ----------------------------
(***************************************************************************)
(* What the storage commands of one box promise: an import replaces the    *)
(* files it carries, and the setup stamp with them, in one step or not at  *)
(* all, wherever the importing process dies.  Other commands edit the box  *)
(* file by file.  BoxStorage implements this specification.                *)
(***************************************************************************)
EXTENDS FiniteSets

CONSTANTS
  Contents,   \* what a file of a box may hold, absence included
  Stamps      \* what the setup stamp may hold, absence included

VARIABLES
  content,    \* [file -> Contents]: the box as the next command finds it
  mark,       \* the setup stamp as the next command finds it
  mode,       \* "rest", "import" or "edit"
  carried     \* the files of the import under way, as a partial function

contentVars == <<content, mark, mode, carried>>

ContentsInit ==
  /\ content \in [{"rootfs", "volume", "recipe", "paths"} -> Contents]
  /\ mark \in Stamps
  /\ mode = "rest"
  /\ carried = <<>>

\* A command begins: an import announces what it carries.
Enter(m, files) ==
  /\ mode = "rest"
  /\ mode' = m
  /\ carried' = files
  /\ UNCHANGED <<content, mark>>

\* A command ends, or its process dies, with the box as it was.
Leave ==
  /\ mode' = "rest"
  /\ carried' = <<>>
  /\ UNCHANGED <<content, mark>>

\* The one step in which an import takes effect.
Replace ==
  /\ mode = "import"
  /\ content' = [f \in DOMAIN content |->
                    IF f \in DOMAIN carried THEN carried[f] ELSE content[f]]
  /\ mark' = content'["recipe"].for
  /\ mode' = "rest"
  /\ carried' = <<>>

\* Setup, rm and prune change the box one file at a time.
EditFile ==
  /\ mode = "edit"
  /\ mode' \in {"edit", "rest"}
  /\ UNCHANGED carried

ContentsNext ==
  \/ \E m \in {"import", "edit"} : \E files \in {carried'} : Enter(m, files)
  \/ Leave
  \/ Replace
  \/ EditFile

ContentsSpec == ContentsInit /\ [][ContentsNext]_contentVars
==============================================================================
