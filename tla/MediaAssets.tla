---------------------------- MODULE MediaAssets ----------------------------
(***************************************************************************)
(* Files shared by content: an uploader asks for a place (init), puts the  *)
(* bytes there itself, and reports back (complete), which records one row  *)
(* per content; documents and generated pictures or videos look for the    *)
(* row of their bytes and store them when there is none. Objects may       *)
(* vanish from the store behind the table's back (a life-cycle rule, an    *)
(* operator), and the next init of the same content repairs the row.       *)
(***************************************************************************)
EXTENDS Naturals, FiniteSets

CONSTANTS Contents,     \* contents that are uploaded
          ObjectKeys,   \* object keys; each presign draws a fresh one
          Uploaders,    \* clients of the upload routes
          Makers,       \* requests and tasks that store bytes themselves
          Local,        \* files are kept on the local disk, not in buckets
          MaxVanished   \* bound on the objects that vanish

VARIABLES object,       \* what is stored under each key of each bucket
          asset,        \* the row of each content: its object key, or "none"
          pinned,       \* contents whose row a document refers to
          used,         \* keys drawn so far
          uploader, maker, vanished

mediaVars == <<object, asset, pinned, used, uploader, maker, vanished>>

Buckets == {"private", "public"}
Idle == [pc |-> "idle"]

(* _resolve_bucket: with local storage there is one place.                 *)
Place(bucket) == IF Local THEN "private" ELSE bucket

Init ==
    /\ object = [b \in Buckets |-> [k \in ObjectKeys |-> "none"]]
    /\ asset = [c \in Contents |-> "none"]
    /\ pinned = {} /\ used = {}
    /\ uploader = [u \in Uploaders |-> Idle]
    /\ maker = [m \in Makers |-> Idle]
    /\ vanished = 0

(* uuid4: some key that was never drawn.                                   *)
Fresh == CHOOSE k \in ObjectKeys : k \notin used
KeysLeft == used # ObjectKeys

(* HEAD (or a local read) looks into the default, private bucket; the size *)
(* the type and the declared hash are compared.                            *)
Valid(k, c) == k # "none" /\ object["private"][k] = c

Answer(u, k, how) ==
    uploader' = [uploader EXCEPT ![u] =
      [pc |-> "answered", of |-> @.of, bucket |-> @.bucket, key |-> k, how |-> how,
       serves |-> k # "none" /\ object[Place(@.bucket)][k] = @.of,
       lucky |-> @.lucky]]

StartUpload(u, c, b) ==
    /\ uploader[u].pc = "idle"
    /\ uploader' = [uploader EXCEPT ![u] =
         [pc |-> "init", of |-> c, bucket |-> b, lucky |-> TRUE]]
    /\ UNCHANGED <<object, asset, pinned, used, maker, vanished>>

(* init_upload: a good row is answered at once. A stale one is removed     *)
(* first, in a transaction of its own.                                     *)
LookForAsset(u) ==
    LET c == uploader[u].of
        k == asset[c]
    IN  /\ uploader[u].pc = "init"
        /\ IF Valid(k, c) THEN Answer(u, k, "deduped")
           ELSE uploader' = [uploader EXCEPT ![u] =
                  [pc |-> IF k = "none" THEN "presign" ELSE "stale", of |-> c,
                   bucket |-> @.bucket, row |-> k, lucky |-> @.lucky]]
        /\ UNCHANGED <<object, asset, pinned, used, maker, vanished>>

(* A row that a document refers to cannot be removed; that is only logged. *)
DeleteStale(u) ==
    LET c == uploader[u].of
        kept == c \in pinned /\ asset[c] = uploader[u].row
    IN  /\ uploader[u].pc = "stale"
        /\ asset' = IF asset[c] = uploader[u].row /\ ~ kept
                    THEN [asset EXCEPT ![c] = "none"] ELSE asset
        /\ uploader' = [uploader EXCEPT ![u].pc = "presign", ![u].lucky = @ /\ ~ kept]
        /\ UNCHANGED <<object, pinned, used, maker, vanished>>

PresignPut(u) ==
    LET k == Fresh
    IN  /\ uploader[u].pc = "presign" /\ KeysLeft
        /\ used' = used \cup {k}
        /\ uploader' = [uploader EXCEPT ![u] =
             [pc |-> "put", of |-> @.of, bucket |-> @.bucket, key |-> k, lucky |-> @.lucky]]
        /\ UNCHANGED <<object, asset, pinned, maker, vanished>>

(* The client's own request, with the bytes it declared, cut short, or     *)
(* never made.                                                             *)
PutObject(u) ==
    /\ uploader[u].pc = "put"
    /\ \E bytes \in {uploader[u].of, "short", "none"} :
         object' = [object EXCEPT ![Place(uploader[u].bucket)][uploader[u].key] = bytes]
    /\ uploader' = [uploader EXCEPT ![u].pc = "complete"]
    /\ UNCHANGED <<asset, pinned, used, maker, vanished>>

(* complete_upload: what has not arrived, or not in the private bucket, is *)
(* refused. The first of two takes the row; the other answers with it.     *)
VerifyUpload(u) ==
    /\ uploader[u].pc = "complete"
    /\ uploader' = [uploader EXCEPT ![u] =
         IF Valid(@.key, @.of) THEN [@ EXCEPT !.pc = "record"] ELSE Idle]
    /\ UNCHANGED <<object, asset, pinned, used, maker, vanished>>

RecordUpload(u) ==
    LET c == uploader[u].of
    IN  /\ uploader[u].pc = "record"
        /\ asset' = IF asset[c] = "none" THEN [asset EXCEPT ![c] = uploader[u].key] ELSE asset
        /\ Answer(u, asset'[c], "uploaded")
        /\ UNCHANGED <<object, pinned, used, maker, vanished>>

UseAnswer(u) ==
    /\ uploader[u].pc = "answered"
    /\ uploader' = [uploader EXCEPT ![u] = Idle]
    /\ UNCHANGED <<object, asset, pinned, used, maker, vanished>>

UploadFails(u) ==
    /\ uploader[u].pc \in {"put", "complete"}
    /\ uploader' = [uploader EXCEPT ![u] = Idle]
    /\ UNCHANGED <<object, asset, pinned, used, maker, vanished>>

(***************************************************************************)
(* Bytes stored by the program itself                                      *)
(***************************************************************************)
(* The row of the same bytes is taken as it is, without a look at the      *)
(* object.                                                                 *)
Make(m, c) ==
    /\ maker[m].pc = "idle"
    /\ maker' = [maker EXCEPT ![m] =
         IF asset[c] # "none" THEN [pc |-> "refer", of |-> c, row |-> asset[c]]
         ELSE [pc |-> "store", of |-> c]]
    /\ UNCHANGED <<object, asset, pinned, used, uploader, vanished>>

StoreBytes(m) ==
    LET k == Fresh
    IN  /\ maker[m].pc = "store" /\ KeysLeft
        /\ used' = used \cup {k}
        /\ object' = [object EXCEPT !["private"][k] = maker[m].of]
        /\ maker' = [maker EXCEPT ![m] = [pc |-> "row", of |-> @.of, key |-> k]]
        /\ UNCHANGED <<asset, pinned, uploader, vanished>>

(* Here a second row of the same content is an error: the request or the   *)
(* task fails and its object stays without a row.                          *)
CreateAsset(m) ==
    LET c == maker[m].of
    IN  /\ maker[m].pc = "row"
        /\ IF asset[c] = "none"
           THEN /\ asset' = [asset EXCEPT ![c] = maker[m].key]
                /\ maker' = [maker EXCEPT ![m] = [pc |-> "refer", of |-> c, row |-> @.key]]
           ELSE UNCHANGED asset /\ maker' = [maker EXCEPT ![m] = Idle]
        /\ UNCHANGED <<object, pinned, used, uploader, vanished>>

(* A document refers to the row, if it is still there; a generated output  *)
(* is a reference that a removal only empties.                             *)
Refer(m) ==
    LET c == maker[m].of
    IN  /\ maker[m].pc = "refer"
        /\ \/ asset[c] = maker[m].row /\ pinned' = pinned \cup {c}
           \/ UNCHANGED pinned
        /\ maker' = [maker EXCEPT ![m] = Idle]
        /\ UNCHANGED <<object, asset, used, uploader, vanished>>

(* An object with a row goes; uploads that run at the time are out of      *)
(* luck.                                                                   *)
ObjectVanishes(k) ==
    /\ vanished < MaxVanished
    /\ object["private"][k] # "none" /\ \E c \in Contents : asset[c] = k
    /\ object' = [object EXCEPT !["private"][k] = "none"]
    /\ vanished' = vanished + 1
    /\ uploader' = [u \in Uploaders |->
         IF uploader[u].pc \in {"idle", "answered"} THEN uploader[u]
         ELSE [uploader[u] EXCEPT !.lucky = FALSE]]
    /\ UNCHANGED <<asset, pinned, used, maker>>

UploaderStep(u) ==
    \/ LookForAsset(u) \/ DeleteStale(u) \/ PresignPut(u) \/ PutObject(u)
    \/ VerifyUpload(u) \/ RecordUpload(u) \/ UseAnswer(u)

Next ==
    \/ \E u \in Uploaders :
         \/ UploaderStep(u) \/ UploadFails(u)
         \/ \E c \in Contents, b \in Buckets : StartUpload(u, c, b)
    \/ \E m \in Makers :
         \/ StoreBytes(m) \/ CreateAsset(m) \/ Refer(m)
         \/ \E c \in Contents : Make(m, c)
    \/ \E k \in ObjectKeys : ObjectVanishes(k)

Spec == Init /\ [][Next]_mediaVars

(***************************************************************************)
(* Properties                                                              *)
(***************************************************************************)
TypeOK ==
    /\ asset \in [Contents -> ObjectKeys \cup {"none"}]
    /\ pinned \subseteq Contents /\ used \subseteq ObjectKeys
    /\ \A b \in Buckets, k \in ObjectKeys : object[b][k] \in Contents \cup {"none", "short"}
    /\ \A u \in Uploaders : uploader[u].pc \in {"idle", "init", "stale", "presign", "put",
                                                "complete", "record", "answered"}
    /\ \A m \in Makers : maker[m].pc \in {"idle", "store", "row", "refer"}

(* Two contents never share an object, and a pinned content has its row:   *)
(* the clean-up of stale rows removes none that a document refers to.      *)
RowsKept ==
    /\ \A c, d \in Contents : c # d /\ asset[c] # "none" => asset[c] # asset[d]
    /\ \A c \in pinned : asset[c] # "none"

(* A private upload that was answered has its bytes behind the address it  *)
(* got, be it its own object, one found at init or the one of another      *)
(* uploader that was faster - unless an object vanished meanwhile, or the  *)
(* stale row could not be removed because a document refers to it.         *)
AnsweredServes ==
    \A u \in Uploaders :
        uploader[u].pc = "answered" /\ uploader[u].bucket = "private" /\ uploader[u].lucky
        => uploader[u].serves

(* media_routes.py: "bucket_type=public" gives a permanent address in the  *)
(* public bucket. Not so: the row of a private upload is answered with a   *)
(* public address, too.                                                    *)
PublicUrlServes ==
    \A u \in Uploaders :
        uploader[u].pc = "answered" /\ uploader[u].bucket = "public" => uploader[u].serves
=============================================================================
