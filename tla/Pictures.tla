------------------------------- MODULE Pictures -------------------------------
(***************************************************************************)
(* The pictures of users, companies and groups: uploading and deleting one *)
(* (uploadAvatar, uploadLogo, deleteAvatar, deleteLogo), erasing a user's  *)
(* with the account (deleteOwnAccount), and the nightly run that signs the *)
(* stored links anew (ImageUrlRefreshService).  A row keeps the path of    *)
(* the file and a signed link to it, which dies a week after it was made.  *)
(*                                                                         *)
(* Left out: shrinking and converting the file, who may change which       *)
(* picture, and the events that tell clients of the change.                *)
(*                                                                         *)
(* A definition marked Mutant is a faulty form of the one that follows it. *)
(***************************************************************************)
EXTENDS Naturals, FiniteSets

CONSTANTS
    Owners,         \* rows of one table: users, companies or groups
    Erasable,       \* those of users, who may erase their accounts
    Changers,       \* requests that upload, delete or erase a picture
    Paths,          \* paths for new files; each is used once
    Week,           \* STORED_IMAGE_TTL, in days
    Spare           \* RESIGN_BEFORE_MS, in days

NoPath == "no path"

PicturesAssumption ==
    /\ Owners # {} /\ Erasable \subseteq Owners
    /\ NoPath \notin Paths
    /\ Week \in Nat /\ Spare \in 1..Week

VARIABLES
    pic,            \* pic[o]: the path, the link and deletedAt in the row of o
    bucket,         \* the files stored
    fresh,          \* paths not used yet
    change,         \* change[c]: a request, and the path it read
    run,            \* whether refreshAll is running
    todo,           \* todo[o]: what the run has read of the row of o
    signed,         \* the row whose file is signed and the link not saved yet
    missed,         \* nights since a run last ended well
    blurred,        \* owners whom two changes were about at once
    astray,         \* owners whose row a run gave the link to another file
    failed          \* owners of whom a change has failed halfway

vars == <<pic, bucket, fresh, change, run, todo, signed, missed, blurred, astray, failed>>

runVars == <<run, todo, signed, missed>>

Nothing == [path |-> NoPath, of |-> NoPath, left |-> 0, erased |-> FALSE]

\* A link made before links were short-lived: for years.
Ancient == Week + 2

NoChange == [pc |-> "idle", owner |-> CHOOSE o \in Owners : TRUE,
             kind |-> "delete", old |-> NoPath, new |-> NoPath]

AnyPath == Paths \cup {NoPath}

Kinds == {"upload", "delete", "erase"}

PicRows == [path : AnyPath, of : AnyPath, left : 0..Ancient, erased : BOOLEAN]

Changes == [pc : {"idle", "drop", "put", "sign", "write"}, owner : Owners, kind : Kinds,
            old : AnyPath, new : AnyPath]

TypeOK ==
    /\ pic \in [Owners -> PicRows]
    /\ bucket \subseteq Paths
    /\ fresh \subseteq Paths
    /\ change \in [Changers -> Changes]
    /\ run \in BOOLEAN
    /\ todo \in [Owners -> AnyPath]
    /\ signed \subseteq Owners
    /\ missed \in 0..Week
    /\ blurred \subseteq Owners
    /\ astray \subseteq Owners
    /\ failed \subseteq Owners

\* Some have a picture, with a link from before.
Init ==
    \E first \in [Owners -> AnyPath] :
        /\ \A o, p \in Owners : o # p /\ first[o] = first[p] => first[o] = NoPath
        /\ pic = [o \in Owners |->
                     IF first[o] = NoPath THEN Nothing
                     ELSE [path |-> first[o], of |-> first[o], left |-> Ancient,
                           erased |-> FALSE]]
        /\ bucket = {first[o] : o \in Owners} \ {NoPath}
        /\ fresh = Paths \ bucket
        /\ change = [c \in Changers |-> NoChange]
        /\ run = FALSE
        /\ todo = [o \in Owners |-> NoPath]
        /\ signed = {}
        /\ missed = 1
        /\ blurred = {}
        /\ astray = {}
        /\ failed = {}

-----------------------------------------------------------------------------
(* uploadAvatar, uploadLogo, deleteAvatar, deleteLogo, deleteOwnAccount.   *)

\* The row is read for the path of the file it has now.  An erased account
\* asks for nothing; erasing one writes the row first.
ReadOld(c, o, kind) ==
    /\ change[c].pc = "idle"
    /\ ~pic[o].erased /\ (kind = "erase" => o \in Erasable)
    /\ change' = [change EXCEPT ![c] =
         [pc |-> IF kind = "erase" THEN "write" ELSE "drop", owner |-> o, kind |-> kind,
          old |-> pic[o].path, new |-> NoPath]]
    /\ blurred' = IF \E d \in Changers : change[d].pc # "idle" /\ change[d].owner = o
                  THEN blurred \cup {o} ELSE blurred
    /\ UNCHANGED <<pic, bucket, fresh, runVars, astray, failed>>

Goes(c, pc) == change' = [change EXCEPT ![c] = IF pc = "idle" THEN NoChange
                                               ELSE [@ EXCEPT !.pc = pc]]

Fails(o, fails) == failed' = IF fails THEN failed \cup {o} ELSE failed

\* deleteFile of the old picture, before there is a new one, but after the row
\* is erased; that it failed is overlooked.
DropOld(c, fails) ==
    LET old == change[c].old IN
    /\ change[c].pc = "drop"
    /\ old = NoPath => ~fails
    /\ bucket' = IF fails THEN bucket ELSE bucket \ {old}
    /\ Fails(change[c].owner, fails)
    /\ Goes(c, CASE change[c].kind = "upload" -> "put"
                 [] change[c].kind = "delete" -> "write"
                 [] OTHER -> "idle")
    /\ UNCHANGED <<pic, fresh, runVars, blurred, astray>>

\* uploadWithUrl: the file is stored and signed; either may throw.
PutNew(c, path) ==
    /\ change[c].pc = "put" /\ path \in fresh
    /\ bucket' = bucket \cup {path}
    /\ fresh' = fresh \ {path}
    /\ change' = [change EXCEPT ![c].pc = "sign", ![c].new = path]
    /\ UNCHANGED <<pic, runVars, blurred, astray, failed>>

SignNew(c) ==
    /\ change[c].pc = "sign" /\ change[c].new \in bucket
    /\ Goes(c, "write")
    /\ UNCHANGED <<pic, bucket, fresh, runVars, blurred, astray, failed>>

\* Storage or the database refuses, or the process dies.
FailChange(c) ==
    /\ change[c].pc # "idle"
    /\ Fails(change[c].owner, TRUE)
    /\ Goes(c, "idle")
    /\ UNCHANGED <<pic, bucket, fresh, runVars, blurred, astray>>

\* Path and link are written together.
WriteRow(c) ==
    LET o == change[c].owner
        new == change[c].new
    IN
    /\ change[c].pc = "write"
    /\ pic' = [pic EXCEPT ![o] =
         IF change[c].kind = "upload"
         THEN [@ EXCEPT !.path = new, !.of = new, !.left = Week]
         ELSE [Nothing EXCEPT !.erased = pic[o].erased \/ change[c].kind = "erase"]]
    /\ astray' = astray \ {o}
    /\ Goes(c, IF change[c].kind = "erase" THEN "drop" ELSE "idle")
    /\ UNCHANGED <<bucket, fresh, runVars, blurred, failed>>

-----------------------------------------------------------------------------
(* The nightly run.                                                        *)

\* Mutant: the last day is soon enough.
NeedsResignLate(link) == link.left < 1 \/ link.left > Week + 1

\* Too near its end, or from before links were short-lived.
NeedsResign(link) == link.left < Spare \/ link.left > Week + 1

\* refreshAll: the rows with a path are read, and those passed over need no
\* signature.  One run at a time, that of the night or that after a boot.
StartRun ==
    /\ ~run
    /\ run' = TRUE
    /\ todo' = [o \in Owners |->
         IF pic[o].path # NoPath /\ ~pic[o].erased /\ NeedsResign(pic[o])
         THEN pic[o].path ELSE NoPath]
    /\ UNCHANGED <<pic, bucket, fresh, change, signed, missed, blurred, astray, failed>>

\* refresh, for one row after another: the file that the row named when it was
\* read is signed.  A missing file is passed over.
SignLink(o) ==
    /\ run /\ todo[o] # NoPath /\ signed = {}
    /\ IF todo[o] \in bucket
       THEN signed' = {o} /\ UNCHANGED todo
       ELSE todo' = [todo EXCEPT ![o] = NoPath] /\ UNCHANGED signed
    /\ UNCHANGED <<pic, bucket, fresh, change, run, missed, blurred, astray, failed>>

\* The link is saved by id alone.  Beside a path that has changed since the row
\* was read, it is not to the picture of the row.
SaveLink(o) ==
    /\ run /\ o \in signed
    /\ pic' = [pic EXCEPT ![o].of = todo[o], ![o].left = Week]
    /\ astray' = IF pic[o].path = todo[o] THEN astray \ {o} ELSE astray \cup {o}
    /\ todo' = [todo EXCEPT ![o] = NoPath]
    /\ signed' = {}
    /\ UNCHANGED <<bucket, fresh, change, run, missed, blurred, failed>>

EndRun ==
    /\ run /\ \A o \in Owners : todo[o] = NoPath
    /\ run' = FALSE
    /\ missed' = 0
    /\ UNCHANGED <<pic, bucket, fresh, change, todo, signed, blurred, astray, failed>>

\* An outage ends the run for all rows to come; a restart does as well.
AbortRun ==
    /\ run
    /\ run' = FALSE
    /\ todo' = [o \in Owners |-> NoPath]
    /\ signed' = {}
    /\ UNCHANGED <<pic, bucket, fresh, change, missed, blurred, astray, failed>>

\* A night goes by, with no run that lasts from one to the next.
Night ==
    /\ ~run /\ missed < Week
    /\ missed' = missed + 1
    /\ pic' = [o \in Owners |-> IF pic[o].left \in {0, Ancient} THEN pic[o]
                                ELSE [pic[o] EXCEPT !.left = @ - 1]]
    /\ UNCHANGED <<bucket, fresh, change, run, todo, signed, blurred, astray, failed>>

Change(c) ==
    \/ \E o \in Owners, kind \in Kinds : ReadOld(c, o, kind)
    \/ \E fails \in BOOLEAN : DropOld(c, fails)
    \/ \E path \in Paths : PutNew(c, path)
    \/ SignNew(c)
    \/ FailChange(c)
    \/ WriteRow(c)

Next ==
    \/ \E c \in Changers : Change(c)
    \/ StartRun
    \/ \E o \in Owners : SignLink(o) \/ SaveLink(o)
    \/ EndRun
    \/ AbortRun
    \/ Night

Spec == Init /\ [][Next]_vars

-----------------------------------------------------------------------------

BeingChanged(o) == \E c \in Changers : change[c].pc # "idle" /\ change[c].owner = o

\* The picture of a row is in the bucket and the link in the row lives: it is
\* neither an old one for years after a run, nor a dead one before the third
\* night without a run.  The link shows that picture, if the run that saved it
\* did not go by a picture that was replaced.
PictureHolds(o) ==
    /\ o \in astray \/ pic[o].of = pic[o].path
    /\ pic[o].path # NoPath =>
          /\ pic[o].path \in bucket
          /\ missed = 0 => pic[o].left # Ancient
          /\ pic[o].left = 0 => missed >= Spare

\* No file is left in the bucket that no row names.
NoneLeftBehind ==
    bucket \subseteq {pic[o].path : o \in Owners} \cup {change[c].new : c \in Changers}
                     \cup {change[c].old : c \in Changers}

\* Pictures, files and links agree whatever overlaps, except for an owner whom
\* two changes were about at once, or of whom a change has failed halfway; and
\* the picture of an erased account goes from the row and from the bucket.
PicturesHold ==
    /\ \A o \in Owners \ (blurred \cup failed) : BeingChanged(o) \/ PictureHolds(o)
    /\ blurred \cup failed = {} => NoneLeftBehind

=============================================================================
