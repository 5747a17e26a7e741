---------------------------- MODULE BulkContract ----------------------------
(***************************************************************************)
(* What "polyfetch bulk" promises whoever reads its output (USING.md, the  *)
(* error schema and exit codes): one line per url in the order of the      *)
(* file, and an exit code that says whether every url has its line and no  *)
(* line reports an error.  How the fetches are spread over workers does    *)
(* not show.                                                               *)
(***************************************************************************)
EXTENDS Naturals, Sequences

CONSTANT NumUrls     \* urls in the file

VARIABLES lines,     \* what each line reports: "ok" or "failed"
          verdict    \* what the exit code says, "none" while bulk runs

vars == <<lines, verdict>>

Init == lines = <<>> /\ verdict = "none"

Line == /\ verdict = "none"
        /\ Len(lines) < NumUrls
        /\ \E kind \in {"ok", "failed"} : lines' = Append(lines, kind)
        /\ UNCHANGED verdict

Complete == Len(lines) = NumUrls
AllOk    == \A i \in 1..Len(lines) : lines[i] = "ok"

Conclude == /\ verdict = "none"
            /\ verdict' = IF Complete /\ AllOk THEN "ok" ELSE "failed"
            /\ UNCHANGED lines

Next == Line \/ Conclude

Safe == Init /\ [][Next]_vars

Spec == Safe /\ <>(verdict # "none")

=============================================================================
