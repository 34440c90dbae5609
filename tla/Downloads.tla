----------------------------- MODULE Downloads -----------------------------
(***************************************************************************)
(* The image_download tasks (service/tasks/image_download.go, submitted by *)
(* handler/image_market.go) beside the handlers of Disks, on the files     *)
(* they share.  A file is what a path leads to at a moment: a download     *)
(* writes through the file it opened, whatever its path became.            *)
(***************************************************************************)
EXTENDS Disks

CONSTANTS
    Loaders,    \* workers of the slow pool that may take these tasks
    Pieces,     \* bound: the writes that make a file whole
    MaxFiles    \* bound: files that downloads create

ASSUME DownloadsAssumption == Pieces \in Nat \ {0} /\ MaxFiles \in Nat

VARIABLES
    part,       \* what <target>.part leads to
    body,       \* the pieces in each file
    job,        \* the tasks at work
    files,      \* files created
    shared      \* targets two tasks downloaded at once (not in the code)

downloads == <<part, body, job, files, shared>>

Idle == [at |-> "idle", x |-> NoVol, file |-> NoVol, n |-> 0]
JobTo(l, place) == job' = [job EXCEPT ![l].at = place]
Ends(l) == job' = [job EXCEPT ![l] = Idle]
Whole(f) == f = NoVol \/ body[f] = 1..Pieces
disksAll == <<machine, locked, hand>>

\* Download submits, a worker takes the task; nothing looks for another of the same image.
Fetch(l) == \E q \in deeds :
    /\ q.op = "download" /\ job[l] = Idle
    /\ deeds' = deeds \ {q}
    /\ job' = [job EXCEPT ![l] = [Idle EXCEPT !.at = "stat", !.x = q.x]]
    /\ UNCHANGED <<disksAll, storage, chances, part, body, files, shared>>

\* A file that is there and not empty is registered as it is.
Stat(l) ==
    LET x == job[l].x IN
    /\ job[l].at = "stat"
    /\ JobTo(l, IF vol[x].there /\ (vol[x].file = NoVol \/ body[vol[x].file] # {}) THEN "register" ELSE "open")
    /\ UNCHANGED <<disksAll, storage, deeds, chances, part, body, files, shared>>

Writers(x) == {k \in Loaders : job[k].at = "write" /\ job[k].x = x}

\* os.Create empties the file that is there.
Opened(l, f) ==
    /\ body' = [body EXCEPT ![f] = {}]
    /\ job' = [job EXCEPT ![l] = [@ EXCEPT !.at = "write", !.file = f]]
    /\ shared' = IF Writers(job[l].x) # {} THEN shared \union {job[l].x} ELSE shared

\* Mutant: the download goes straight to its target.
OpenTarget(l) ==
    LET x == job[l].x IN
    /\ job[l].at = "open" /\ files < MaxFiles
    /\ files' = files + 1 /\ Opened(l, files + 1)
    /\ part' = [part EXCEPT ![x] = files + 1]
    /\ vol' = [vol EXCEPT ![x] = [NoFile EXCEPT !.there = TRUE, !.file = files + 1]]
    /\ UNCHANGED <<disksAll, image, deeds, chances>>

OpenPart(l) ==
    LET x == job[l].x IN
    /\ job[l].at = "open"
    /\ IF part[x] # NoVol
         THEN Opened(l, part[x]) /\ UNCHANGED <<part, files>>
         ELSE /\ files < MaxFiles
              /\ files' = files + 1 /\ Opened(l, files + 1)
              /\ part' = [part EXCEPT ![x] = files + 1]
    /\ UNCHANGED <<disksAll, storage, deeds, chances>>

WritePiece(l) ==
    /\ job[l].at = "write" /\ job[l].n < Pieces
    /\ body' = [body EXCEPT ![job[l].file] = @ \union {job[l].n + 1}]
    /\ job' = [job EXCEPT ![l].n = @ + 1]
    /\ UNCHANGED <<disksAll, storage, deeds, chances, part, files, shared>>

\* The transfer breaks, before or after the file was opened: the path is removed, whoever opened it last.
Breaks(l) ==
    /\ job[l].at \in {"open", "write"} /\ Errs
    /\ part' = IF job[l].at = "write" THEN [part EXCEPT ![job[l].x] = NoVol] ELSE part
    /\ Ends(l)
    /\ UNCHANGED <<disksAll, storage, deeds, body, files, shared>>

Rename(l) ==
    LET x == job[l].x IN
    /\ job[l].at = "write" /\ job[l].n = Pieces
    /\ IF part[x] = NoVol
         THEN Ends(l) /\ UNCHANGED <<vol, part>>
         ELSE /\ vol' = [vol EXCEPT ![x] = [NoFile EXCEPT !.there = TRUE, !.file = part[x]]]
              /\ part' = [part EXCEPT ![x] = NoVol]
              /\ JobTo(l, "register")
    /\ UNCHANGED <<disksAll, image, deeds, chances, body, files, shared>>

\* The row is found again, refreshed or created; it needs the file.
RegisterRow(l) ==
    LET x == job[l].x IN
    /\ job[l].at = "register"
    /\ \/ image' = (IF vol[x].there THEN image \union {x} ELSE image) /\ UNCHANGED chances
       \/ Errs /\ UNCHANGED image
    /\ Ends(l)
    /\ UNCHANGED <<disksAll, vol, deeds, part, body, files, shared>>

DownloadsInit ==
    /\ part = [x \in Vols |-> NoVol] /\ body = [f \in 1..MaxFiles |-> {}]
    /\ job = [l \in Loaders |-> Idle]
    /\ files = 0 /\ shared = {}

DownloadsNext == \E l \in Loaders :
    Fetch(l) \/ Stat(l) \/ OpenPart(l) \/ WritePiece(l) \/ Breaks(l) \/ Rename(l) \/ RegisterRow(l)

\* A file stands unfinished at its target only when two tasks downloaded it at
\* once: a transfer that broke, a process that was killed and a task that ran
\* again leave none (image_download.go:33).
DownloadWhole == \A x \in Vols : vol[x].there /\ ~Whole(vol[x].file) => x \in shared
=============================================================================
