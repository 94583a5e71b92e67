------------------------------- MODULE Logging --------------------------------
(***************************************************************************)
(* The log of the crawler (main() of crawler/main.cpp): the file is created *)
(* after the options were read, whatever the mode, with a link to it,       *)
(* current_log.  While the program measures, a task renames the file to one *)
(* of a few names in turn, and logs a line first; loguru opens a new file   *)
(* when it finds that the name is gone.  Lines are numbered.                *)
(*                                                                         *)
(* loguru and the file system are external.  loguru looks for the name when *)
(* a line comes a second or more after it last looked, so that lines may    *)
(* follow a file to its new name.  Rotations are a second apart, or more.   *)
(* All that main() asks of the file system may fail: it looks at no result. *)
(***************************************************************************)
EXTENDS CommandLine

CONSTANTS num_rotated_files,    \* 5
          MaxLines,             \* bound on the lines
          MaxRotations          \* and on the rotations

ASSUME LoggingAssumption ==
  num_rotated_files \in Nat \ {0} /\ MaxLines \in Nat /\ MaxRotations \in Nat

VARIABLES link,     \* where current_log leads: to an "earlier" log, to the log
                    \* of "this" run, or "nowhere"; "none" if there is no link
          refused,  \* creating the file or the link has failed
          progr,    \* the static counter of the task
          disk,     \* disk[n]: the lines of the file of this name, or None
          open,     \* the name of the file loguru has open, or unopened
          looked,   \* loguru has looked since the last rotation,
          rested,   \* which is a second ago or more
          lines,    \* how many lines were logged,
          rotated   \* and how many at every rotation

log_vars == <<link, refused, progr, disk, open, looked, rested, lines, rotated>>

log_file == -1
unopened == -2
Names    == {log_file} \cup 0..(num_rotated_files - 1)
None     == {0}         \* 0 is no line

-------------------------------------------------------------------------------
(* Creating the log.                                                        *)

(* The link holds the name of the file as it was given, from the working    *)
(* directory, and is followed from its own: with a relative path there is   *)
(* nothing, unless the two directories are the same.                        *)
Target == IF options.l = "relative" THEN "nowhere" ELSE "this"

(* Faulty: the link of an earlier log is not removed. *)
Linked_once(unlinked, done) == IF done /\ link = "none" THEN Target ELSE link

(* There is no name for the link if there was none, or it was removed. *)
Free(unlinked) == link = "none" \/ unlinked

(* A link is not made where there is one. *)
Linked(unlinked, done) ==
  IF ~Free(unlinked) THEN link ELSE IF done THEN Target ELSE "none"

(* What unlink returns is not looked at: on the first run it always fails.  *)
CreateLog ==
  \E added, unlinked, done \in BOOLEAN :
    /\ link' = Linked(unlinked, done)
    /\ refused' = ~(added /\ Free(unlinked) /\ done)
    /\ open' = IF added THEN log_file ELSE unopened
    /\ disk' = [disk EXCEPT ![log_file] = IF added THEN {} ELSE None]
    /\ UNCHANGED <<progr, looked, rested, lines, rotated>>

OptionsEnd ==
  /\ Parsed
  /\ IF options.l = "" THEN UNCHANGED log_vars ELSE CreateLog

-------------------------------------------------------------------------------
(* Logging and rotating.                                                    *)

(* Whether loguru looks at a line that comes a second or more after the     *)
(* last rotation, or not.                                                   *)
Looks(late) == IF late /\ ~looked THEN {TRUE} ELSE BOOLEAN

(* The file that a line goes to, and the disk with the line. *)
Opened(looks) == IF looks THEN log_file ELSE open
Logged(looks) ==
  LET reopened == IF looks /\ disk[log_file] = None
                  THEN [disk EXCEPT ![log_file] = {}] ELSE disk
  IN  [n \in Names |-> IF n = Opened(looks) THEN reopened[n] \cup {lines + 1}
                                            ELSE reopened[n]]

Measuring == outcome = "m" /\ options.l # "" /\ open # unopened

Log ==
  /\ Measuring /\ lines < MaxLines
  /\ \E passed \in BOOLEAN :
       /\ rested' = (rested \/ passed)
       /\ \E looks \in Looks(rested') :
            /\ disk' = Logged(looks) /\ open' = Opened(looks)
            /\ looked' = (looked \/ looks)
  /\ lines' = lines + 1
  /\ UNCHANGED <<vars, link, refused, progr, rotated>>

(* Faulty: the last name is never used. *)
newname_but_last == progr % (num_rotated_files - 1)

newname == progr % num_rotated_files

(* The line of the task itself brings loguru back to the name, if nothing   *)
(* else did: there is a file to be renamed, and loguru has it open.         *)
Rotate ==
  /\ Measuring /\ progr < MaxRotations /\ lines < MaxLines
  /\ \E looks \in Looks(TRUE), fails \in BOOLEAN :
       IF fails THEN disk' = Logged(looks) /\ open' = Opened(looks)
       ELSE /\ disk' = [Logged(looks) EXCEPT ![newname] = Logged(looks)[log_file],
                                             ![log_file] = None]
            /\ open' = newname
  /\ progr' = progr + 1
  /\ looked' = FALSE /\ rested' = FALSE
  /\ lines' = lines + 1
  /\ rotated' = Append(rotated, lines')
  /\ UNCHANGED <<vars, link, refused>>

LoggingInit ==
  /\ Init
  /\ link \in {"none", "earlier"} /\ refused = FALSE
  /\ progr = 0 /\ disk = [n \in Names |-> None] /\ open = unopened
  /\ looked = TRUE /\ rested = TRUE /\ lines = 0 /\ rotated = << >>

LoggingNext ==
  \/ (Options \/ Dispatch) /\ UNCHANGED log_vars
  \/ OptionsEnd \/ Log \/ Rotate

LoggingSpec == LoggingInit /\ [][LoggingNext]_<<vars, log_vars>>
-------------------------------------------------------------------------------
(* Properties.                                                              *)

(* No line is lost before num_rotated_files more rotations: of the lines    *)
(* that a rotation overwrites, the last were logged before the rotation     *)
(* after the one that renamed their file, although the task does not know   *)
(* which file loguru writes to.  Renamings that fail do not change that.    *)
LinesKept ==
  LET first == progr - num_rotated_files + 1
  IN  \A line \in 1..lines :
        first <= 1 \/ line > rotated[first] => \E n \in Names : line \in disk[n]

(* current_log, which is made once, leads to the newest line again as soon  *)
(* as one is logged a second or more after a rotation, whether or not there *)
(* was a link before: unless the file or the link could not be made, or the *)
(* log path is a relative one other than "." and the link leads nowhere.    *)
CurrentLog ==
  lines > 0 /\ rested /\ ~refused =>
    lines \in disk[log_file] /\ link = IF options.l = "relative" THEN "nowhere" ELSE "this"

(* Both of what a reader of the log relies on: the log keeps its lines and  *)
(* can be found, whatever renamings fail and loguru notices late.           *)
LogKept == LinesKept /\ CurrentLog
===============================================================================
