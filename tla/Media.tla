-------------------------------- MODULE Media --------------------------------
(***************************************************************************)
(* Files in the bucket and the rows that name them: the gallery of one     *)
(* listing (media-gallery.service.ts, listings.service.ts), the queue that *)
(* transcodes videos (media-processing.service.ts, video.service.ts) and   *)
(* the pictures of which an owner has one, replaced in place               *)
(* (categories.service.ts, sellers.service.ts).                            *)
(*                                                                         *)
(* The bucket and the database are two systems and no transaction spans    *)
(* them.  Each action is the code from one await to the next; a deletion   *)
(* that nobody awaits is an action of its own.  The queue and everything   *)
(* under way die with the process; rows and files do not.                  *)
(***************************************************************************)
EXTENDS Naturals, FiniteSets, Sequences, SequencesExt, FiniteSetsExt

CONSTANTS
    None,
    Handlers,        \* requests running at the same time, numbered
    MediaIds,        \* ids of media rows, numbers, given in this order
    Uploads,         \* the files staff may send: photos and clips
    Mixes,           \* what a behaviour is about: the kinds of requests made in it
                     \* and the files the gallery holds when the process starts
    MaxMedia,        \* MAX_MEDIA_PER_GALLERY
    MaxDuration,     \* MAX_DURATION_SEC
    MaxImageSize,    \* MAX_IMAGE_SIZE
    MaxVideoSize,    \* MAX_VIDEO_SIZE
    MaxRequests,     \* bound: requests accepted
    MaxFailures,     \* bound: calls of the bucket or the database that fail
    MaxRestarts      \* bound: restarts of the process

VARIABLES
    mix,        \* the one of Mixes this behaviour is about
    listed,     \* the row of the listing exists
    rows,       \* catalog_item_media: the gallery, None where there is no row
    slots,      \* the key in categories.iconKey and sellers.bannerUrl
    bucket,     \* the keys of the bucket and what they hold
    deleting,   \* deletions under way that nobody awaits
    queue,      \* ids enqueued, in order
    job,        \* the one job under way
    pc, req,    \* where each request stands, what it knows
    clock,      \* Date.now() of the last key that was named by it
    named,      \* media ids given so far
    asked, failures, restarts,
    removed,    \* history: rows whose removal has begun
    twice,      \* history: keys given to two uploads
    broken,     \* history: slots whose replacement stopped half way
    alone,      \* history: no request has met another
    stuck,      \* history: rows whose job could not even record that it failed
    leaked      \* history: files nothing will ever delete, by a known accident

disk == <<bucket, deleting>>
work == <<queue, job>>
requests == <<pc, req, asked>>
counters == <<clock, named>>
world == <<failures, restarts>>
history == <<removed, twice, broken, alone, stuck, leaked>>
vars == <<mix, listed, rows, slots, disk, work, requests, counters, world, history>>

SlotNames == {"icon", "banner"}

NoReq == [kind |-> "none", id |-> 0, file |-> None, key |-> None, sort |-> 0,
          todo |-> <<>>, gone |-> {}]
NoJob == [pc |-> "idle", id |-> 0, src |-> None]

\* Keys: random for a source, by the id of the row for what is made of it, by
\* the millisecond for a picture.
Source(n) == <<"src", n>>
Video(n) == <<"mp4", n>>
Poster(n) == <<"poster", n>>
Picture(owner, ms) == <<owner, ms>>

Gallery == {i \in MediaIds : rows[i] # None}

FilesOf(row) == {row.url, row.posterUrl} \ {None}

\* The keys that rows name.
Referenced == (UNION {FilesOf(rows[i]) : i \in Gallery}) \cup (Range(slots) \ {None})

Processing(i) == rows[i] # None /\ rows[i].status = "PROCESSING"

\* The elements of a finite set, in order.
InOrder(S, Precedes(_, _)) ==
    CHOOSE s \in SetToSeqs(S) : \A i, j \in DOMAIN s : i < j => Precedes(s[i], s[j])

\* The gallery in the order of sortOrder; rows with one sortOrder come as the
\* database likes, here by id.
Before(i, j) == \/ rows[i].sortOrder < rows[j].sortOrder
                \/ rows[i].sortOrder = rows[j].sortOrder /\ i < j
Listed == InOrder(Gallery, Before)

-----------------------------------------------------------------------------
(* What is accepted: photos by what they are, clips by what ffprobe says *)

IsVideo(file) == file.type = "video"

\* The route admits a file by what the client says it is, and by its size: the
\* gallery's limit is the larger one, and photos are held to theirs by hand.
AdmittedToGallery(file) ==
    /\ file.type \in {"image", "video"}
    /\ file.size <= IF IsVideo(file) THEN MaxVideoSize ELSE MaxImageSize

AdmittedAsImage(file) == file.type = "image" /\ file.size <= MaxImageSize

\* toWebp: the format is read from the content, and is one of a list.
Formats == {"jpeg", "png", "webp", "avif", "heif", "gif", "tiff"}
ImageAccepted(file) == ~IsVideo(file) /\ file.format \in Formats

\* probe: a video stream, and a duration within the limit.
ProbeAccepts(file) == file.format = "video" /\ file.seconds \in 1..MaxDuration

Made == [type |-> "made"]

-----------------------------------------------------------------------------
(* The bucket *)

Put(keys, content) ==
    bucket' = [k \in DOMAIN bucket \cup keys |-> IF k \in keys THEN content ELSE bucket[k]]

Without(keys) == [k \in DOMAIN bucket \ keys |-> bucket[k]]

\* A call that fails.
Broken == failures < MaxFailures /\ failures' = failures + 1

\* A deletion nobody awaits is carried out, or fails and is logged.
Delete(key) ==
    /\ key \in deleting
    /\ deleting' = deleting \ {key}
    /\ \/ /\ bucket' = Without({key})
          /\ UNCHANGED <<failures, leaked>>
       \/ /\ Broken
          /\ leaked' = leaked \cup {key}
          /\ UNCHANGED bucket
    /\ UNCHANGED <<listed, rows, slots, work, requests, counters, restarts, removed, twice, broken, alone, stuck>>

-----------------------------------------------------------------------------
(* Requests *)

Go(h, label) == pc' = [pc EXCEPT ![h] = label]
Knows(h, field, value) == req' = [req EXCEPT ![h][field] = value]
Done(h) == pc' = [pc EXCEPT ![h] = "idle"] /\ req' = [req EXCEPT ![h] = NoReq]

\* Handlers are alike: the first idle one takes the request.
Ask(h, r) ==
    /\ pc[h] = "idle"
    /\ \A o \in Handlers : pc[o] = "idle" => h <= o
    /\ asked < MaxRequests
    /\ asked' = asked + 1
    /\ r.kind \in SlotNames \/ listed
    /\ req' = [req EXCEPT ![h] = [NoReq EXCEPT !.kind = r.kind, !.file = r.file, !.id = r.id]]
    /\ alone' = (alone /\ \A o \in Handlers : pc[o] = "idle")
    /\ Go(h, CASE r.kind = "add" -> "count"
               [] r.kind \in {"up", "down"} -> "swap"
               [] r.kind = "remove" -> "find"
               [] r.kind = "removeListing" -> "list"
               [] r.kind = "icon" -> "read"
               [] r.kind = "banner" -> "put")
    /\ UNCHANGED <<listed, rows, slots, disk, work, counters, world, removed, twice, broken, stuck, leaked>>

\* add: the limit is looked at before anything is uploaded.
Count(h) ==
    /\ pc[h] = "count"
    /\ IF Cardinality(Gallery) >= MaxMedia
       THEN Done(h)
       ELSE Go(h, "last") /\ UNCHANGED req
    /\ UNCHANGED <<listed, rows, slots, disk, work, asked, counters, world, history>>

NextPlace == IF Gallery = {} THEN 0 ELSE Max({rows[i].sortOrder : i \in Gallery}) + 1

\* The last place is read.  The row to come is given its id here.
ReadLast(h) ==
    /\ pc[h] = "last"
    /\ named < Cardinality(MediaIds)
    /\ named' = named + 1
    /\ req' = [req EXCEPT ![h].sort = NextPlace, ![h].id = named + 1]
    /\ Go(h, "put")
    /\ UNCHANGED <<listed, rows, slots, disk, work, asked, clock, world, history>>

\* Keys that something already holds, or means to delete.
InUse == DOMAIN bucket \cup deleting \cup Referenced
             \cup ({req[o].key : o \in Handlers} \ {None}) \cup UNION {req[o].gone : o \in Handlers}

Owner(h) == IF req[h].kind = "add" THEN "listing" ELSE req[h].kind

\* A picture is named by the millisecond, and two may fall in one.
Names(h) == IF IsVideo(req[h].file) THEN {Source(req[h].id)}
            ELSE {Picture(Owner(h), ms) : ms \in {clock, clock + 1}}

AfterPut(h) == CASE req[h].kind = "add" -> "create"
                 [] req[h].kind = "icon" -> "replace"
                 [] req[h].kind = "banner" -> "read"

\* A picture that cannot be converted.
Refuse(h) ==
    /\ pc[h] = "put"
    /\ ~IsVideo(req[h].file) /\ ~ImageAccepted(req[h].file)
    /\ Done(h)
    /\ UNCHANGED <<listed, rows, slots, disk, work, asked, counters, world, history>>

\* The upload: the source of a clip as it came, a photo converted.
Upload(h) ==
    /\ pc[h] = "put"
    /\ IsVideo(req[h].file) \/ ImageAccepted(req[h].file)
    /\ \/ /\ \E key \in Names(h) :
               /\ Put({key}, IF IsVideo(req[h].file) THEN req[h].file ELSE Made)
               /\ clock' = IF IsVideo(req[h].file) THEN clock ELSE key[2]
               /\ twice' = IF key \in InUse THEN twice \cup {key} ELSE twice
               /\ Knows(h, "key", key)
          /\ Go(h, AfterPut(h))
          /\ UNCHANGED failures
       \/ Broken /\ Done(h) /\ UNCHANGED <<bucket, clock, twice>>
    /\ UNCHANGED <<listed, rows, slots, deleting, work, asked, named, restarts, removed, broken, alone, stuck, leaked>>

NewRow(h) ==
    [type |-> req[h].file.type, url |-> req[h].key, posterUrl |-> None,
     status |-> IF IsVideo(req[h].file) THEN "PROCESSING" ELSE "READY",
     sortOrder |-> req[h].sort]

\* The row, if its owner is still there.  The source of a clip is deleted when
\* there is no row for it; a photo stays behind.
Create(h) ==
    /\ pc[h] = "create"
    /\ \/ listed /\ rows' = [rows EXCEPT ![req[h].id] = NewRow(h)] /\ UNCHANGED failures
       \/ ~listed /\ UNCHANGED <<rows, failures>>
       \/ Broken /\ UNCHANGED rows
    /\ LET made == rows' # rows
           clip == IsVideo(req[h].file)
       IN  /\ IF clip THEN Go(h, IF made THEN "enqueue" ELSE "undo") /\ UNCHANGED req
                      ELSE Done(h)
           /\ leaked' = IF made \/ clip THEN leaked ELSE leaked \cup {req[h].key}
    /\ UNCHANGED <<listed, slots, disk, work, asked, counters, restarts, removed, twice, broken, alone, stuck>>

Undo(h) ==
    /\ pc[h] = "undo"
    /\ \/ bucket' = Without({req[h].key}) /\ UNCHANGED <<failures, leaked>>
       \/ Broken /\ leaked' = leaked \cup {req[h].key} /\ UNCHANGED bucket
    /\ Done(h)
    /\ UNCHANGED <<listed, rows, slots, deleting, work, asked, counters, restarts, removed, twice, broken, alone, stuck>>

Enqueue(h) ==
    /\ pc[h] = "enqueue"
    /\ queue' = Append(queue, req[h].id)
    /\ Done(h)
    /\ UNCHANGED <<listed, rows, slots, disk, job, asked, counters, world, history>>

\* remove: the files the row names now are deleted, unawaited, and then the row.
\* For a whole listing its gallery is removed row by row, as listed at the start.
Find(h) ==
    /\ pc[h] = "find"
    /\ LET i == req[h].id
       IN  IF rows[i] = None
           THEN Done(h) /\ UNCHANGED <<deleting, removed>>
           ELSE /\ deleting' = deleting \cup FilesOf(rows[i])
                /\ Knows(h, "gone", FilesOf(rows[i]))
                /\ removed' = removed \cup {i}
                /\ Go(h, "delete")
    /\ UNCHANGED <<listed, rows, slots, bucket, work, asked, counters, world, twice, broken, alone, stuck, leaked>>

\* The row may name other files by now: a clip has become a video.
DeleteRow(h) ==
    /\ pc[h] = "delete"
    /\ LET i == req[h].id
       IN  \/ /\ rows[i] # None
              /\ rows' = [rows EXCEPT ![i] = None]
              /\ leaked' = leaked \cup (FilesOf(rows[i]) \ (req[h].gone \ twice))
              /\ IF req[h].kind = "remove" THEN Done(h)
                 ELSE /\ req' = [req EXCEPT ![h].todo = Tail(@)]
                      /\ Go(h, "next")
              /\ UNCHANGED failures
           \/ rows[i] = None /\ Done(h) /\ UNCHANGED <<rows, failures, leaked>>
           \/ Broken /\ Done(h) /\ UNCHANGED <<rows, leaked>>
    /\ UNCHANGED <<listed, slots, disk, work, asked, counters, restarts, removed, twice, broken, alone, stuck>>

ListGallery(h) ==
    /\ pc[h] = "list"
    /\ Knows(h, "todo", Listed)
    /\ Go(h, "next")
    /\ UNCHANGED <<listed, rows, slots, disk, work, asked, counters, world, history>>

\* The next row of the gallery, or the listing itself: what the gallery has got
\* since goes with it, and its files stay.
NextOrListing(h) ==
    /\ pc[h] = "next"
    /\ IF req[h].todo # <<>>
       THEN /\ Knows(h, "id", Head(req[h].todo))
            /\ Go(h, "find")
            /\ UNCHANGED <<listed, rows, leaked, failures>>
       ELSE \/ /\ listed' = FALSE
               /\ rows' = [i \in MediaIds |-> None]
               /\ leaked' = leaked \cup UNION {FilesOf(rows[i]) : i \in Gallery}
               /\ Done(h)
               /\ UNCHANGED failures
            \/ Broken /\ Done(h) /\ UNCHANGED <<listed, rows, leaked>>
    /\ UNCHANGED <<slots, disk, work, asked, counters, restarts, removed, twice, broken, alone, stuck>>

\* reorder: the neighbour is found in a list, the two places are exchanged in
\* one transaction of two updates; a row that has gone makes it fail.
Swap(h) ==
    /\ pc[h] = "swap"
    /\ LET at == SelectInSeq(Listed, LAMBDA i : i = req[h].id)
           with == IF req[h].kind = "up" THEN at - 1 ELSE at + 1
       IN  IF at = 0 \/ with \notin DOMAIN Listed
           THEN Done(h)
           ELSE /\ Knows(h, "todo", <<[id |-> Listed[at], sort |-> rows[Listed[with]].sortOrder],
                                      [id |-> Listed[with], sort |-> rows[Listed[at]].sortOrder]>>)
                /\ Go(h, "swapped")
    /\ UNCHANGED <<listed, rows, slots, disk, work, asked, counters, world, history>>

Swapped(h) ==
    /\ pc[h] = "swapped"
    /\ LET new == Range(req[h].todo)
       IN  rows' = IF \E n \in new : rows[n.id] = None THEN rows
                   ELSE [i \in MediaIds |->
                            IF \E n \in new : n.id = i
                            THEN [rows[i] EXCEPT !.sortOrder = (CHOOSE n \in new : n.id = i).sort]
                            ELSE rows[i]]
    /\ Done(h)
    /\ UNCHANGED <<listed, slots, disk, work, asked, counters, world, history>>

\* The old key of the icon or the banner.  An icon is read before its file is
\* converted and uploaded, a banner after; the old file goes before the row changes.
ReadSlot(h) ==
    /\ pc[h] = "read"
    /\ Knows(h, "gone", {slots[req[h].kind]} \ {None})
    /\ Go(h, IF req[h].kind = "icon" THEN "put" ELSE "replace")
    /\ UNCHANGED <<listed, rows, slots, disk, work, asked, counters, world, history>>

Replace(h) ==
    /\ pc[h] = "replace"
    /\ deleting' = deleting \cup req[h].gone
    /\ Go(h, "write")
    /\ UNCHANGED <<listed, rows, slots, bucket, work, req, asked, counters, world, history>>

WriteSlot(h) ==
    /\ pc[h] = "write"
    /\ LET k == req[h].kind
       IN  \/ /\ slots' = [slots EXCEPT ![k] = req[h].key]
              /\ leaked' = leaked \cup ({slots[k]} \ ({None, req[h].key} \cup (req[h].gone \ twice)))
              /\ broken' = broken \ {k}
              /\ UNCHANGED failures
           \/ /\ Broken
              /\ leaked' = leaked \cup {req[h].key}
              /\ broken' = broken \cup {k}
              /\ UNCHANGED slots
    /\ Done(h)
    /\ UNCHANGED <<listed, rows, disk, work, asked, counters, restarts, removed, twice, alone, stuck>>

-----------------------------------------------------------------------------
(* The worker: one job at a time, in the order they were enqueued *)

Worker(step, next) == job.pc = step /\ job' = [job EXCEPT !.pc = next]
WorkerOnly == UNCHANGED <<listed, slots, deleting, requests, counters, restarts, removed, twice, broken, alone>>

\* A row that has gone, or is no longer PROCESSING, is passed over.  When the row
\* cannot be read the job is dropped and the row waits for a restart.
StartJob ==
    /\ job.pc = "idle"
    /\ queue # <<>>
    /\ queue' = Tail(queue)
    /\ LET i == Head(queue)
       IN  \/ /\ job' = IF Processing(i) THEN [pc |-> "transcode", id |-> i, src |-> rows[i].url]
                                         ELSE NoJob
              /\ UNCHANGED <<failures, stuck>>
           \/ Broken /\ stuck' = stuck \cup {i} /\ UNCHANGED job
    /\ UNCHANGED <<rows, bucket, leaked>> /\ WorkerOnly

\* The source is fetched, looked at and transcoded, on the local disk.
Transcode ==
    /\ job.pc = "transcode"
    /\ \/ /\ job.src \in DOMAIN bucket
          /\ Worker("transcode", IF ProbeAccepts(bucket[job.src]) THEN "upload" ELSE "fail")
          /\ UNCHANGED failures
       \/ job.src \notin DOMAIN bucket /\ Worker("transcode", "fail") /\ UNCHANGED failures
       \/ Broken /\ Worker("transcode", "fail")
    /\ UNCHANGED <<rows, bucket, queue, stuck, leaked>> /\ WorkerOnly

Results == {Video(job.id), Poster(job.id)}

\* Slip: a video is finished when either file is there.
UploadSome ==
    /\ Worker("upload", "update")
    /\ \/ Put(Results, Made) /\ UNCHANGED failures
       \/ Broken /\ \E some \in (SUBSET Results) \ {{}} : Put(some, Made)
    /\ UNCHANGED <<rows, queue, stuck, leaked>> /\ WorkerOnly

\* Promise.all of two uploads: when one fails the other may have been made.
UploadResults ==
    /\ \/ /\ Worker("upload", "update")
          /\ Put(Results, Made)
          /\ UNCHANGED <<failures, leaked>>
       \/ /\ Broken
          /\ Worker("upload", "fail")
          /\ \E some \in (SUBSET Results) \ {Results} :
                 /\ Put(some, Made)
                 /\ leaked' = leaked \cup some
    /\ UNCHANGED <<rows, queue, stuck>> /\ WorkerOnly

\* Slip: the row is looked up by its id alone, and a missing row is no news.
FinishUnchecked ==
    /\ \/ /\ Worker("update", "clean")
          /\ rows' = IF rows[job.id] = None THEN rows
                     ELSE [rows EXCEPT ![job.id].url = Video(job.id),
                                       ![job.id].posterUrl = Poster(job.id),
                                       ![job.id].status = "READY"]
          /\ UNCHANGED <<failures, leaked>>
       \/ Broken /\ Worker("update", "fail") /\ leaked' = leaked \cup Results /\ UNCHANGED rows
    /\ UNCHANGED <<bucket, queue, stuck>> /\ WorkerOnly

\* updateMany where the row is still PROCESSING: no row, and what was made is
\* taken back.
FinishRow ==
    /\ \/ /\ Worker("update", "clean")
          /\ Processing(job.id)
          /\ rows' = [rows EXCEPT ![job.id].url = Video(job.id),
                                  ![job.id].posterUrl = Poster(job.id),
                                  ![job.id].status = "READY"]
          /\ UNCHANGED <<failures, leaked>>
       \/ /\ Worker("update", "withdraw")
          /\ ~Processing(job.id)
          /\ UNCHANGED <<rows, failures, leaked>>
       \/ Broken /\ Worker("update", "fail") /\ leaked' = leaked \cup Results /\ UNCHANGED rows
    /\ UNCHANGED <<bucket, queue, stuck>> /\ WorkerOnly

\* cleanup of the two results, each of which may fail and is logged.
Withdraw ==
    /\ Worker("withdraw", "clean")
    /\ \/ bucket' = Without(Results) /\ UNCHANGED <<failures, leaked>>
       \/ /\ Broken
          /\ \E kept \in Results : bucket' = Without(Results \ {kept}) /\ leaked' = leaked \cup {kept}
    /\ UNCHANGED <<rows, queue, stuck>> /\ WorkerOnly

\* The failure is recorded, unless that fails too.
FailRow ==
    /\ Worker("fail", "clean")
    /\ \/ /\ rows' = IF Processing(job.id) THEN [rows EXCEPT ![job.id].status = "FAILED"] ELSE rows
          /\ UNCHANGED <<failures, stuck>>
       \/ Broken /\ stuck' = stuck \cup {job.id} /\ UNCHANGED rows
    /\ UNCHANGED <<bucket, queue, leaked>> /\ WorkerOnly

\* finally: the source is not needed, whatever came of it.
CleanSource ==
    /\ job.pc = "clean"
    /\ job' = NoJob
    /\ \/ bucket' = Without({job.src}) /\ UNCHANGED <<failures, leaked>>
       \/ Broken /\ leaked' = leaked \cup {job.src} /\ UNCHANGED bucket
    /\ UNCHANGED <<rows, queue, stuck>> /\ WorkerOnly

-----------------------------------------------------------------------------
(* The process dies and starts again: what is still PROCESSING is enqueued *)

\* Slip: nothing is picked up after a restart.
ResumeNothing == <<>>

Resume == InOrder({i \in Gallery : Processing(i)}, <)

Restart ==
    /\ restarts < MaxRestarts
    /\ restarts' = restarts + 1
    /\ pc' = [h \in Handlers |-> "idle"]
    /\ req' = [h \in Handlers |-> NoReq]
    /\ deleting' = {}
    /\ job' = NoJob
    /\ queue' = Resume
    /\ stuck' = {}
    /\ leaked' = leaked \cup (DOMAIN bucket \ Referenced)
    /\ broken' = broken \cup {req[h].kind : h \in {o \in Handlers : pc[o] = "write"}}
    /\ UNCHANGED <<listed, rows, slots, bucket, asked, counters, failures, removed, twice, alone>>

-----------------------------------------------------------------------------

HeldKey(i) == IF IsVideo(mix.held[i]) THEN Source(i) ELSE Picture("listing", i)

\* The process starts over a gallery: photos, and clips whose job is picked up.
Init ==
    /\ mix \in Mixes
    /\ listed = TRUE
    /\ rows = [i \in MediaIds |->
                  IF i \in DOMAIN mix.held
                  THEN [type |-> mix.held[i].type, url |-> HeldKey(i), posterUrl |-> None,
                        status |-> IF IsVideo(mix.held[i]) THEN "PROCESSING" ELSE "READY",
                        sortOrder |-> i - 1]
                  ELSE None]
    /\ slots = [k \in SlotNames |-> None]
    /\ bucket = [k \in {HeldKey(i) : i \in DOMAIN mix.held} |->
                    IF k[1] = "src" THEN mix.held[k[2]] ELSE Made]
    /\ deleting = {}
    /\ queue = Resume
    /\ job = NoJob
    /\ pc = [h \in Handlers |-> "idle"]
    /\ req = [h \in Handlers |-> NoReq]
    /\ clock = Len(mix.held) /\ named = Len(mix.held)
    /\ asked = 0 /\ failures = 0 /\ restarts = 0
    /\ removed = {} /\ twice = {} /\ broken = {} /\ alone = TRUE /\ stuck = {} /\ leaked = {}

\* A request names a row that exists when it is made, or a file.
Request ==
    [kind : mix.kinds \cap {"add"}, file : {f \in Uploads : AdmittedToGallery(f)}, id : {0}]
        \cup [kind : mix.kinds \cap SlotNames, file : {f \in Uploads : AdmittedAsImage(f)}, id : {0}]
        \cup [kind : mix.kinds \cap {"remove", "up", "down"}, file : {None}, id : Gallery]
        \cup [kind : mix.kinds \cap {"removeListing"}, file : {None}, id : {0}]

Step(h) ==
    \/ Count(h) \/ ReadLast(h) \/ Refuse(h) \/ Upload(h) \/ Create(h) \/ Undo(h) \/ Enqueue(h)
    \/ Find(h) \/ DeleteRow(h) \/ ListGallery(h) \/ NextOrListing(h)
    \/ Swap(h) \/ Swapped(h)
    \/ ReadSlot(h) \/ Replace(h) \/ WriteSlot(h)

Work ==
    \/ StartJob \/ Transcode \/ UploadResults \/ FinishRow \/ Withdraw \/ FailRow \/ CleanSource

Next ==
    /\ UNCHANGED mix
    /\ \/ \E h \in Handlers : \E r \in Request : Ask(h, r)
       \/ \E h \in Handlers : Step(h)
       \/ \E key \in deleting : Delete(key)
       \/ Work
       \/ Restart

\* Node runs whatever is ready: a request goes on and the queue is worked off.
Spec == Init /\ [][Next]_vars /\ WF_vars(Work /\ UNCHANGED mix)
        /\ \A h \in Handlers : WF_vars(Step(h) /\ UNCHANGED mix)

-----------------------------------------------------------------------------
(* Properties *)

Owners == {"src", "mp4", "poster", "listing"} \cup SlotNames
Key == Owners \X Nat

Row == [type : {"image", "video"}, url : Key, posterUrl : Key \cup {None},
        status : {"PROCESSING", "READY", "FAILED"}, sortOrder : Nat]

Kinds == {"add", "remove", "up", "down", "removeListing"} \cup SlotNames

\* The constants: ids are given in order, null is nothing else, and the process
\* begins with a gallery of photos and clips within its limit.
ASSUME IdsAssumption == IsFiniteSet(MediaIds) /\ MediaIds = 1..Cardinality(MediaIds)
ASSUME NoneAssumption == None \notin Key \cup Row
ASSUME BoundsAssumption ==
    MaxMedia \in Nat /\ MaxRequests \in Nat /\ MaxFailures \in Nat /\ MaxRestarts \in Nat
ASSUME MixesAssumption ==
    \A m \in Mixes :
        /\ m.kinds \subseteq Kinds
        /\ Len(m.held) \in MediaIds \cup {0} /\ Len(m.held) <= MaxMedia
        /\ DOMAIN m.held = 1..Len(m.held)
        /\ \A i \in DOMAIN m.held : m.held[i].type \in {"image", "video"}

\* The keys that can have been given so far.
GivenKeys == Owners \X (0..(named + clock))

TypeOK ==
    /\ mix \in Mixes /\ listed \in BOOLEAN /\ alone \in BOOLEAN
    /\ rows \in [MediaIds -> Row \cup {None}]
    /\ Gallery \subseteq 1..named /\ (Gallery # {} => listed)
    /\ slots \in [SlotNames -> Key \cup {None}] /\ broken \subseteq SlotNames
    /\ DOMAIN bucket \cup deleting \cup leaked \cup twice \cup Referenced \subseteq GivenKeys
    /\ removed \cup stuck \subseteq MediaIds
    /\ job.pc \in {"idle", "transcode", "upload", "update", "withdraw", "fail", "clean"}
    /\ queue \in Seq(MediaIds)
    /\ \A h \in Handlers : req[h].kind \in mix.kinds \cup {"none"}
    /\ clock \in Nat /\ named \in 0..Cardinality(MediaIds) /\ asked \in 0..MaxRequests
    /\ failures \in 0..MaxFailures /\ restarts \in 0..MaxRestarts

\* What the storefront would show is there: the files of a READY medium, its
\* poster included, and the icon and the banner are in the bucket, whatever
\* requests, jobs, failures and restarts met.  A medium whose removal has begun, a
\* slot being replaced or left half replaced, and a key two uploads were given in
\* one millisecond are the exceptions.
ShownFilesExist ==
    /\ \A i \in Gallery \ removed :
           rows[i].status = "READY" => FilesOf(rows[i]) \subseteq DOMAIN bucket \cup twice
    /\ \A k \in SlotNames \ broken :
           \/ slots[k] \in DOMAIN bucket \cup twice \cup {None}
           \/ \E h \in Handlers : req[h].kind = k /\ pc[h] = "write"

\* What requests and the job have in their hands: uploaded and not yet written
\* down, or to be deleted.
InHand ==
    deleting
        \cup ({req[h].key : h \in Handlers} \ {None})
        \cup (IF job.pc = "idle" THEN {} ELSE {job.src})
        \cup (IF job.pc \in {"update", "withdraw"} THEN Results ELSE {})

\* No file is forgotten by the code itself: what is in the bucket is named by a
\* row, is in the hands of something that will write it down or delete it, or was
\* left behind by one of the accidents recorded in leaked.
FilesAreAccountedFor == DOMAIN bucket \subseteq Referenced \cup InHand \cup leaked

\* As long as requests come one at a time the gallery keeps its limit and its
\* order: no two media share a place, so the arrows always move something.
GalleryInOrder ==
    alone => /\ Cardinality(Gallery) <= MaxMedia
             /\ \A i, j \in Gallery : rows[i].sortOrder = rows[j].sortOrder => i = j

\* The gallery and the pictures as staff and customers find them.
GalleryHolds == TypeOK /\ ShownFilesExist /\ GalleryInOrder

\* No video is PROCESSING for ever, across restarts too, except one whose job
\* could not read the row or record its failure: that one waits for a restart.
VideosFinish == \A i \in MediaIds : Processing(i) ~> (~Processing(i) \/ i \in stuck)
=============================================================================
