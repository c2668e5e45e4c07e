----------------------------- MODULE LogPipeline -----------------------------
(* framework/logfile: when a game stops, UploadLog copies its log files into *)
(* logtmp/<flow> (DoMove), and a goroutine archives the copies into          *)
(* logtmp/<flow>.zip, uploads the archive and removes it, up to three times. *)
(* Every DoMove also starts a goroutine that removes what has been in logtmp *)
(* for more than eight hours.  This is one flow, for which UploadLog may be  *)
(* called again, in the same process or after a crash.                       *)
EXTENDS Naturals, FiniteSets

CONSTANTS
    Files,              \* the log files of the game
    Calls,              \* calls of UploadLog
    Attempts,           \* 3
    MaxFaults,          \* bound: failing operations and crashes
    MaxAgeing           \* bound: times that eight hours pass

VARIABLES
    isDeleteSourceFile, \* the field of the configuration
    client,             \* whether createUploadClient finds one (in this tree: no)
    old,                \* files that are older than uploadTimeRecentLimit
    source,             \* files in the game's own directories
    dir,                \* logtmp/<flow> exists
    tmp,                \* file -> its copy there: "no", "part" or "whole"
    zip,                \* the archive: open until Close has ended it, garbled when
                        \* two goroutines write it; the files in it; and the calls
                        \* that made this very file, took it or uploaded it
    expired,            \* which of "dir", "zip" is older than eight hours
    cleaners,           \* goroutines that are about to begin CleanExpiredData
    listed,             \* what the one that has the lock is going to remove
    pc,                 \* where a call is
    todo,               \* the files its walk has still to copy
    attempt,            \* i in UploadLog
    uploaded,           \* files in archives that were uploaded whole
    faults, ageing,
    swept,              \* files of which CleanExpiredData removed a copy (history)
    torn,               \* files in an archive that was never closed after their copies
                        \* were removed, was uploaded before it was closed, or was
                        \* removed by a call that had uploaded another one (history)
    reused              \* some call took an incomplete archive for the archive (history)

LogAssumption ==
    /\ IsFiniteSet(Calls) /\ Files # {}
    /\ Attempts \in Nat \ {0} /\ MaxFaults \in Nat /\ MaxAgeing \in Nat

logvars == <<isDeleteSourceFile, client, old, source, dir, tmp, zip, expired, cleaners,
             listed, pc, todo, attempt, uploaded, faults, ageing, swept, torn, reused>>

NoZip == [state |-> "none", files |-> {}, by |-> {}]
Copies == {f \in Files : tmp[f] = "whole"}
Steps == {"new", "copy", "remove", "archive", "create", "fill", "purge", "close",
          "upload", "clean", "success", "ended"}
Done == {"new", "success", "ended"}

TypeOK ==
    /\ isDeleteSourceFile \in BOOLEAN /\ client \in BOOLEAN
    /\ old \subseteq Files /\ source \subseteq Files
    /\ dir \in BOOLEAN
    /\ tmp \in [Files -> {"no", "part", "whole"}]
    /\ zip \in [state : {"none", "open", "closed", "garbled"}, files : SUBSET Files,
                by : SUBSET Calls]
    /\ expired \subseteq {"dir", "zip"} /\ listed \subseteq {"dir", "zip"}
    /\ cleaners \in 0..Cardinality(Calls)
    /\ pc \in [Calls -> Steps]
    /\ todo \in [Calls -> SUBSET Files]
    /\ attempt \in [Calls -> 0..Attempts]
    /\ uploaded \subseteq Files /\ swept \subseteq Files /\ torn \subseteq Files
    /\ faults \in 0..MaxFaults /\ ageing \in 0..MaxAgeing
    /\ reused \in BOOLEAN

Init ==
    /\ isDeleteSourceFile \in BOOLEAN
    /\ client \in BOOLEAN
    /\ old \in {{}, {CHOOSE f \in Files : TRUE}}
    /\ source = Files
    /\ dir = FALSE
    /\ tmp = [f \in Files |-> "no"]
    /\ zip = NoZip
    /\ expired = {}
    /\ cleaners = 0
    /\ listed = {}
    /\ todo = [c \in Calls |-> {}]
    /\ pc = [c \in Calls |-> "new"]
    /\ attempt = [c \in Calls |-> 0]
    /\ uploaded = {}
    /\ faults = 0
    /\ ageing = 0
    /\ swept = {}
    /\ torn = {}
    /\ reused = FALSE

-----------------------------------------------------------------------------
config == <<isDeleteSourceFile, client, old>>
history == <<swept, torn, reused>>
Goto(c, step) == pc' = [pc EXCEPT ![c] = step]
Fault == faults < MaxFaults /\ faults' = faults + 1

(* An attempt returned an error: the loop of UploadLog sleeps and tries      *)
(* again, or has ended.                                                      *)
RetryOnceMore(c) ==
    /\ attempt' = [attempt EXCEPT ![c] = @ + 1]
    /\ Goto(c, IF attempt'[c] <= Attempts THEN "archive" ELSE "ended")
RetryForever(c) == Goto(c, "archive") /\ UNCHANGED attempt
Retry(c) ==
    /\ attempt' = [attempt EXCEPT ![c] = @ + 1]
    /\ Goto(c, IF attempt'[c] < Attempts THEN "archive" ELSE "ended")

(* The archive that is there is not what the files should have become.       *)
Incomplete == zip.state = "open" \/ ~(Copies \subseteq zip.files)
ReusesZip == reused' = (reused \/ Incomplete)

(* UploadLog and the beginning of DoMove: an archive that exists is taken as *)
(* it is; otherwise the directory is made.  Events of a flow come one after  *)
(* the other: DoMove runs in the caller's goroutine.                         *)
UploadLog(c) ==
    /\ pc[c] = "new"
    /\ \A d \in Calls : pc[d] \notin {"copy", "remove"}
    /\ cleaners' = cleaners + 1
    /\ IF zip.state # "none"
       THEN Goto(c, "archive") /\ ReusesZip /\ UNCHANGED <<dir, todo>>
       ELSE /\ dir' = TRUE
            /\ todo' = [todo EXCEPT ![c] = source \ old]
            /\ Goto(c, "copy")
            /\ UNCHANGED reused
    /\ UNCHANGED <<config, source, tmp, zip, expired, listed, attempt, uploaded, faults,
                   ageing, swept, torn>>

(* copyDir, a file at a time; a copy makes the directory again if it must.   *)
(* A failure ends the call.                                                  *)
CopyFailsGoesOn(c) == UNCHANGED pc
CopyFails(c) == Goto(c, "ended")
CopyFile(c) ==
    /\ pc[c] = "copy"
    /\ \E f \in todo[c] :
        /\ dir' = TRUE
        /\ todo' = [todo EXCEPT ![c] = @ \ {f}]
        /\ \/ tmp' = [tmp EXCEPT ![f] = "whole"] /\ UNCHANGED <<pc, faults>>
           \/ /\ tmp' = [tmp EXCEPT ![f] = IF @ = "whole" THEN @ ELSE "part"]
              /\ Fault
              /\ CopyFails(c)
    /\ UNCHANGED <<config, source, zip, expired, cleaners, listed, attempt, uploaded,
                   ageing, history>>
CopyDone(c) ==
    /\ pc[c] = "copy"
    /\ todo[c] = {}
    /\ Goto(c, IF isDeleteSourceFile THEN "remove" ELSE "archive")
    /\ UNCHANGED <<config, source, dir, tmp, zip, expired, cleaners, listed, todo, attempt,
                   uploaded, faults, ageing, history>>

(* The sources are removed, old ones included.  Failures are ignored, except *)
(* for a rule that names a file: then UploadLog ends without an upload.      *)
RemoveSource(c) ==
    /\ pc[c] = "remove"
    /\ \/ source' = {} /\ Goto(c, "archive") /\ UNCHANGED faults
       \/ /\ source' \in SUBSET source
          /\ Fault
          /\ Goto(c, "archive") \/ Goto(c, "ended")
    /\ UNCHANGED <<config, dir, tmp, zip, expired, cleaners, listed, todo, attempt,
                   uploaded, ageing, history>>

-----------------------------------------------------------------------------
Takes(c) == zip' = [zip EXCEPT !.by = @ \cup {c}]

(* zipArchive: an existing archive is returned.                              *)
Archive(c) ==
    /\ pc[c] = "archive"
    /\ IF zip.state # "none" THEN ReusesZip /\ Takes(c) /\ Goto(c, "upload")
       ELSE Goto(c, "create") /\ UNCHANGED <<zip, reused>>
    /\ UNCHANGED <<config, source, dir, tmp, expired, cleaners, listed, todo, attempt,
                   uploaded, faults, ageing, swept, torn>>

(* createIfNeeded, which truncates what another goroutine made meanwhile.    *)
Create(c) ==
    /\ pc[c] = "create"
    /\ \/ /\ zip' = [state |-> IF zip.state = "none" THEN "open" ELSE "garbled",
                     files |-> {}, by |-> zip.by \cup {c}]
          /\ torn' = torn \cup zip.files
          /\ expired' = expired \ {"zip"}
          /\ Goto(c, "fill")
          /\ UNCHANGED <<attempt, faults>>
       \/ Fault /\ Retry(c) /\ UNCHANGED <<zip, torn, expired>>
    /\ UNCHANGED <<config, source, dir, tmp, cleaners, listed, todo, uploaded, ageing,
                   swept, reused>>

(* doArchive takes every file of the directory, half-copied ones included.   *)
(* It writes the file that Create opened, whose name another call may have   *)
(* removed meanwhile.                                                        *)
(* When it or Stat fails, the deferred Close replaces the error by its own   *)
(* result, nil as a rule: then the next handler gets a nil *FileDesc.        *)
(* Without a client it returns an error; with one it panics, which ends the  *)
(* goroutine.                                                                *)
Closed == IF zip.state = "open" THEN "closed" ELSE zip.state
Filled(c, files) == zip' = IF c \in zip.by THEN [zip EXCEPT !.files = files] ELSE zip
ArchiveFailsGoesOn(c, done) == Filled(c, done) /\ Goto(c, "purge") /\ UNCHANGED attempt
ArchiveFails(c, done) ==
    \/ Filled(c, done) /\ Retry(c)
    \/ /\ zip' = IF c \in zip.by THEN [zip EXCEPT !.files = done, !.state = Closed] ELSE zip
       /\ IF client THEN Goto(c, "ended") /\ UNCHANGED attempt ELSE Retry(c)
Fill(c) ==
    /\ pc[c] = "fill"
    /\ \/ Filled(c, Copies) /\ Goto(c, "purge") /\ UNCHANGED <<attempt, faults>>
       \/ Fault /\ \E done \in SUBSET Copies : ArchiveFails(c, done)
    /\ UNCHANGED <<config, source, dir, tmp, expired, cleaners, listed, todo, uploaded,
                   ageing, history>>

(* The copies are removed, and only then is the archive closed.  Failures to *)
(* remove are ignored.  An archive that cannot be closed stays, unfinished.  *)
Purge(c) ==
    /\ pc[c] = "purge"
    /\ \/ dir' = FALSE /\ tmp' = [f \in Files |-> "no"] /\ UNCHANGED faults
       \/ Fault /\ UNCHANGED <<dir, tmp>>
    /\ torn' = IF dir' \/ (c \in zip.by /\ zip.state = "open") THEN torn ELSE torn \cup Copies
    /\ expired' = IF dir' THEN expired ELSE expired \ {"dir"}
    /\ Goto(c, "close")
    /\ UNCHANGED <<config, source, zip, cleaners, listed, todo, attempt, uploaded, ageing,
                   swept, reused>>
CloseZip(c) ==
    /\ pc[c] = "close"
    /\ \/ /\ zip' = IF c \in zip.by THEN [zip EXCEPT !.state = Closed] ELSE zip
          /\ Goto(c, "upload")
          /\ UNCHANGED <<torn, attempt, faults>>
       \/ /\ Fault
          /\ torn' = IF c \in zip.by THEN torn \cup zip.files ELSE torn
          /\ Retry(c)
          /\ UNCHANGED zip
    /\ UNCHANGED <<config, source, dir, tmp, expired, cleaners, listed, todo, uploaded,
                   ageing, swept, reused>>

(* UploadTask: there is no client, the archive is beyond the capacity, or    *)
(* UploadFile answers, possibly with an error after the file has arrived.    *)
(* Nothing tells that another goroutine is still writing the archive.        *)
Arrives(c) ==
    /\ zip.state # "none"
    /\ Takes(c)
    /\ IF c \in zip.by THEN UNCHANGED reused ELSE ReusesZip
    /\ IF zip.state = "closed"
       THEN uploaded' = uploaded \cup zip.files /\ UNCHANGED torn
       ELSE torn' = torn \cup zip.files \cup Copies /\ UNCHANGED uploaded
NothingArrives == UNCHANGED <<zip, uploaded, torn, reused>>
Upload(c) ==
    /\ pc[c] = "upload"
    /\ \/ client /\ Arrives(c) /\ Goto(c, "clean") /\ UNCHANGED <<attempt, faults>>
       \/ client /\ Arrives(c) /\ Fault /\ Retry(c)
       \/ client /\ NothingArrives /\ Fault /\ Retry(c)
       \/ client /\ NothingArrives /\ zip.state = "none" /\ Retry(c) /\ UNCHANGED faults
       \/ client /\ NothingArrives /\ Goto(c, "ended") /\ UNCHANGED <<attempt, faults>>
       \/ ~client /\ NothingArrives /\ Retry(c) /\ UNCHANGED faults
    /\ UNCHANGED <<config, source, dir, tmp, expired, cleaners, listed, todo, ageing, swept>>

(* CleanTask removes the archive by its name, which may be another one's by  *)
(* now; one that is gone already is no error.                                *)
Clean(c) ==
    /\ pc[c] = "clean"
    /\ \/ /\ zip' = NoZip
          /\ torn' = IF c \in zip.by THEN torn ELSE torn \cup zip.files
          /\ expired' = expired \ {"zip"}
          /\ Goto(c, "success")
          /\ UNCHANGED <<attempt, faults>>
       \/ Fault /\ Retry(c) /\ UNCHANGED <<zip, torn, expired>>
    /\ UNCHANGED <<config, source, dir, tmp, cleaners, listed, todo, uploaded, ageing,
                   swept, reused>>

-----------------------------------------------------------------------------
(* CleanExpiredData: the one that gets the lock lists what is old, and then  *)
(* removes it by name, whatever has been written there meanwhile.            *)
CleanExpiredData ==
    /\ cleaners > 0
    /\ cleaners' = cleaners - 1
    /\ listed' = IF listed = {} THEN expired ELSE listed
    /\ UNCHANGED <<config, source, dir, tmp, zip, expired, pc, todo, attempt, uploaded,
                   faults, ageing, history>>
RemoveListed ==
    /\ listed # {}
    /\ \/ /\ "dir" \in listed
          /\ dir' = FALSE
          /\ tmp' = [f \in Files |-> "no"]
          /\ swept' = swept \cup Copies
          /\ listed' = listed \ {"dir"}
          /\ expired' = expired \ {"dir"}
          /\ UNCHANGED zip
       \/ /\ "zip" \in listed
          /\ zip' = NoZip
          /\ swept' = swept \cup zip.files
          /\ listed' = listed \ {"zip"}
          /\ expired' = expired \ {"zip"}
          /\ UNCHANGED <<dir, tmp>>
    /\ UNCHANGED <<config, source, cleaners, pc, todo, attempt, uploaded, faults, ageing,
                   torn, reused>>

(* Eight hours pass while nothing is at work.  (At most two of them: after   *)
(* 24 hours the archive would leave the copies out.)                         *)
Ageing ==
    /\ ageing < MaxAgeing
    /\ \A c \in Calls : pc[c] \in Done
    /\ cleaners = 0 /\ listed = {}
    /\ ageing' = ageing + 1
    /\ expired' = (IF dir THEN {"dir"} ELSE {}) \cup
                  (IF zip.state # "none" THEN {"zip"} ELSE {})
    /\ UNCHANGED <<config, source, dir, tmp, zip, cleaners, listed, pc, todo, attempt,
                   uploaded, faults, history>>

(* The process dies; an archive that was being written stays unfinished.     *)
Crash ==
    /\ \E c \in Calls : pc[c] \notin Done
    /\ Fault
    /\ torn' = IF zip.state = "open" /\ \E c \in zip.by : pc[c] = "close"
               THEN torn \cup zip.files ELSE torn
    /\ pc' = [c \in Calls |-> IF pc[c] \in Done THEN pc[c] ELSE "ended"]
    /\ cleaners' = 0
    /\ listed' = {}
    /\ UNCHANGED <<config, source, dir, tmp, zip, expired, todo, attempt, uploaded, ageing,
                   swept, reused>>

Step(c) ==
    \/ CopyFile(c) \/ CopyDone(c) \/ RemoveSource(c) \/ Archive(c) \/ Create(c)
    \/ Fill(c) \/ Purge(c) \/ CloseZip(c) \/ Upload(c) \/ Clean(c)
Next ==
    \/ \E c \in Calls : UploadLog(c) \/ Step(c)
    \/ CleanExpiredData \/ RemoveListed \/ Ageing \/ Crash

(* Goroutines that can go on do.                                             *)
Fairness == \A c \in Calls : WF_logvars(Step(c))
Spec == Init /\ [][Next]_logvars /\ Fairness

-----------------------------------------------------------------------------
(* A recent log file that is gone from its place is somewhere else: among    *)
(* the copies, in the archive or uploaded.  It may be lost in three ways     *)
(* only: the cleaning after eight hours took it; zipArchive, which removes   *)
(* the copies before it closes the archive, could not close it, or not       *)
(* before another call of UploadLog had uploaded and removed it; or two      *)
(* calls uploaded the same archive, and the second one removes by name what  *)
(* a third one has archived meanwhile.                                       *)
NotLost == \A f \in Files \ (old \cup source) :
    f \in Copies \cup zip.files \cup uploaded \cup swept \cup torn

(* "log upload success" is true: the recent files were uploaded in a whole   *)
(* archive, unless a call took an archive that an earlier attempt, another   *)
(* call or another process had left incomplete.                              *)
SuccessMeansUploaded ==
    (\E c \in Calls : pc[c] = "success") /\ ~reused =>
        Files \ old \subseteq uploaded \cup swept \cup torn

(* Every call of UploadLog ends, and so does its goroutine: the attempts are *)
(* bounded whatever fails.                                                   *)
EveryCallEnds == \A c \in Calls : pc[c] # "new" ~> pc[c] \in {"success", "ended"}
=============================================================================
