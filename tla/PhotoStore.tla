----------------------------- MODULE PhotoStore -----------------------------
(***************************************************************************)
(* What ListingService promises to those who read listings and photos: the *)
(* committed rows and the files on disk, without handlers, transactions or *)
(* statements.  A file is there before rows name it, and is removed while  *)
(* they still do, at most once; rows that are deleted do not come back,    *)
(* and a key never names a second file.                                    *)
(***************************************************************************)
EXTENDS Naturals

CONSTANTS Ids, Photos

VARIABLES
    listed,   \* listings with a row
    photos,   \* attachments with their blobs, with the listing of each
    files,    \* photos whose file is on disk
    keys,     \* photos whose key was ever generated
    gone      \* history: photos whose rows were deleted

store == <<listed, photos, files, keys, gone>>

StoreInit ==
    /\ listed = {}
    /\ photos = [i \in {} |-> 0]
    /\ files = {}
    /\ keys = {}
    /\ gone = {}

WriteBlob(i) ==
    /\ i \notin keys
    /\ keys' = keys \cup {i}
    /\ files' = files \cup {i}
    /\ UNCHANGED <<listed, photos, gone>>

\* Create commits a listing with its photos, AttachImages photos only, even of
\* a listing destroyed meanwhile.
Publish(l, uploads) ==
    /\ uploads \subseteq files \ (DOMAIN photos \cup gone)
    /\ photos' = [i \in DOMAIN photos \cup uploads |->
                    IF i \in uploads THEN l ELSE photos[i]]
    /\ listed' \in {listed, listed \cup {l}}
    /\ UNCHANGED <<files, keys, gone>>

\* Save of a listing that is gone.
Relist(l) ==
    /\ listed' = listed \cup {l}
    /\ UNCHANGED <<photos, files, keys, gone>>

\* purgeAttachment's os.Remove, before the commit.
RemoveFile(i) ==
    /\ i \in DOMAIN photos
    /\ files' = files \ {i}
    /\ UNCHANGED <<listed, photos, keys, gone>>

\* DeleteImage commits the deletion of one photo, Destroy that of the listing
\* and of those it found.
Withdraw(l, purged) ==
    /\ purged \subseteq {i \in DOMAIN photos : photos[i] = l}
    /\ photos' = [i \in DOMAIN photos \ purged |-> photos[i]]
    /\ listed' \in {listed, listed \ {l}}
    /\ gone' = gone \cup purged
    /\ UNCHANGED <<files, keys>>

StoreNext ==
    \/ \E i \in Photos : WriteBlob(i) \/ RemoveFile(i)
    \/ \E l \in Ids :
        \/ \E uploads \in SUBSET Photos : Publish(l, uploads)
        \/ Relist(l)
        \/ \E purged \in SUBSET Photos : Withdraw(l, purged)

StoreSpec == StoreInit /\ [][StoreNext]_store

=============================================================================
