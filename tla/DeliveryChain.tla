---------------------------- MODULE DeliveryChain ----------------------------
(***************************************************************************)
(* The way from the recording through DeliveryBuild, DeliveryVerification  *)
(* and Publication to the directory the operator sees.  The recording is   *)
(* read three times, the staging directory by three stages that hand on    *)
(* capabilities, and each looks at the files anew.  The lock of the        *)
(* workspace keeps other runs away, but nothing keeps another program from *)
(* editing the staging directory or the source recording between any two   *)
(* steps.                                                                  *)
(*                                                                         *)
(* A content says where it comes from; a revision stands for what stat     *)
(* tells of a file and is new after every change.  The exchange of the     *)
(* directories is one step here and a module of its own,                   *)
(* PublicationTransaction; what the documents say is DeliveryDocuments.    *)
(***************************************************************************)
EXTENDS Naturals, Sequences, SequencesExt

CONSTANTS Clips,     \* the media files, in the order they are exported
          Docs,      \* the documents, in the order they are written
          Alien,     \* a name that belongs to no delivery
          MaxEdits   \* changes by other programs

VARIABLES
    at,         \* what the thread does next
    index,      \* the file it has come to, where a step is repeated for all
    source,     \* the recording: "same" or "changed" since it was analysed
    dir,        \* the staging directory
    derived,    \* what was made from a recording that had changed
    declared,   \* what build knows of the files it wrote
    read,       \* what verification or publication has read of the files
    tree,       \* the inspection the stage began with
    evidence,   \* what the verified delivery is bound to: contents and tree
    proof,      \* the authority of the PublishedDelivery
    callback,   \* of publish: "idle", "active" or "over"
    reached,    \* commit_reached
    visible,    \* what the operator sees: "old", "new" or "unknown"
    stopped,    \* the run is cancelled
    result,     \* how the chain ended
    edits,      \* changes by other programs so far
    late        \* one of them came after the last inspection

readVars    == <<read, tree, evidence>>
publishVars == <<proof, callback, reached, visible>>
surroundings       == <<source, stopped, edits, late>>
chainVars == <<at, index, source, derived, dir, declared, read, tree, evidence, proof, callback, reached,
          visible, stopped, result, edits, late>>

ClipFiles == Range(Clips)
DocFiles  == Range(Docs)
Files     == ClipFiles \cup DocFiles
Names     == Files \cup {"manifest", Alien}

\* No file has the name of the manifest or one that belongs to no delivery, and
\* no delivery is without documents.
ASSUME FilesAssumption ==
    /\ Clips \in Seq(ClipFiles) /\ Docs \in Seq(DocFiles) /\ Docs # <<>>
    /\ {"manifest", Alien} \cap Files = {} /\ Alien # "manifest"
    /\ MaxEdits \in Nat

\* "edited" is a content another program wrote.
Contents  == {"absent", "rendered", "edited"}
Listings  == [Files -> Contents]
NoListing == [f \in Files |-> "absent"]
File(is, revision) == [is |-> is, revision |-> revision]

\* Revision 0 is a name nobody has taken.
Missing(n)   == File(IF n = "manifest" THEN NoListing ELSE "absent", 0)
Empty        == [n \in Names |-> Missing(n)]
Present(n)   == dir[n].revision > 0
NoEvidence   == [tree |-> Empty, contents |-> NoListing, bound |-> FALSE]

\* Source analysis, the preparation of the audio and the export of the clips
\* open the recording, read it and look at it again; then the run goes on.
Readers    == {"description", "audio", "clips"}
OpenStep   == [description |-> "analyse",   audio |-> "listen", clips |-> "open"]
ReadStep   == [description |-> "describe",  audio |-> "hear",   clips |-> "export"]
CheckStep  == [description |-> "described", audio |-> "heard",  clips |-> "cut"]
AfterCheck == [description |-> "listen",    audio |-> "render", clips |-> "write"]

ReadSteps    == {OpenStep[r] : r \in Readers} \cup {ReadStep[r] : r \in Readers} \cup {CheckStep[r] : r \in Readers}
BuildSteps   == {"render", "write", "manifest"}
VerifySteps  == {"inspect", "listing", "load", "relate", "measure", "reinspect"}
PublishSteps == {"enter", "hash", "recompare", "callback", "effect", "exchange", "swap"}

ChainTypeOK ==
    /\ at \in ReadSteps \cup BuildSteps \cup VerifySteps \cup PublishSteps \cup {"ended"}
    /\ index \in 1 .. Len(Clips) + Len(Docs) + 1
    /\ source \in {"same", "changed"} /\ derived \subseteq Readers /\ declared \in Listings /\ read \in Listings
    /\ \A d \in {dir, tree, evidence.tree} :
         /\ DOMAIN d = Names /\ d["manifest"].is \in Listings
         /\ \A n \in Names \ {"manifest"} : d[n].is \in Contents
         /\ \A n \in Names : d[n].revision \in Nat
    /\ evidence.contents \in Listings /\ evidence.bound \in BOOLEAN
    /\ proof \in {"none", "publishing", "published", "revoked"}
    /\ callback \in {"idle", "active", "over"}
    /\ visible \in {"old", "new", "unknown"}
    /\ reached \in BOOLEAN /\ stopped \in BOOLEAN /\ late \in BOOLEAN
    /\ result \in {"none", "published", "failed", "interrupted"} /\ edits \in 0 .. MaxEdits

ChainInit ==
    /\ at = "analyse" /\ index = 1 /\ source = "same" /\ derived = {} /\ dir = Empty
    /\ declared = NoListing /\ read = NoListing /\ tree = Empty /\ evidence = NoEvidence
    /\ proof = "none" /\ callback = "idle" /\ reached = FALSE /\ visible = "old"
    /\ stopped = FALSE /\ result = "none" /\ edits = 0 /\ late = FALSE

-----------------------------------------------------------------------------
Goto(a) == at' = a /\ index' = 1 /\ result' = result
End(how) == at' = "ended" /\ index' = index /\ result' = how

\* A step finds the run cancelled, where it looks, or fails.
Fails == End("failed")
Interrupted == stopped /\ End("interrupted")

\* The next of n files, or the step after the last.
Advance(n, a) == IF index < n THEN at' = at /\ index' = index + 1 /\ result' = result ELSE Goto(a)

Unread    == UNCHANGED readVars
Unbuilt   == UNCHANGED <<derived, dir, declared>>
Unpublished == UNCHANGED publishVars
Outside   == UNCHANGED surroundings

-----------------------------------------------------------------------------
(* The recording                                                             *)

\* A name is taken only if it is free: no file of the staging directory is
\* ever replaced by the build.
Put(n, is) == /\ ~Present(n)
              /\ dir' = [dir EXCEPT ![n] = File(is, 1)]

\* What is read of a recording that changed is marked.
Derive(r) == derived' = IF source = "same" THEN derived ELSE derived \cup {r}

\* The recording is opened and must be the one the workspace was opened for.
OpenSource(r) ==
    /\ at = OpenStep[r]
    /\ \/ Interrupted \/ Fails
       \/ source = "same" /\ Goto(ReadStep[r])
    /\ Unbuilt /\ Unread /\ Unpublished /\ Outside

\* Its hash and its probe, or its sound.
ReadSource(r) ==
    /\ at = ReadStep[r] /\ r # "clips"
    /\ \/ (Interrupted \/ Fails) /\ UNCHANGED derived
       \/ Derive(r) /\ Goto(CheckStep[r])
    /\ UNCHANGED <<dir, declared>> /\ Unread /\ Unpublished /\ Outside

\* One clip is cut by ffmpeg from the open recording and hashed as it is written.
Export ==
    /\ at = "export"
    /\ \/ (Interrupted \/ Fails) /\ Unbuilt
       \/ LET clip == Clips[index]
          IN  /\ Put(clip, "rendered") /\ Derive("clips")
              /\ declared' = [declared EXCEPT ![clip] = "rendered"]
              /\ Advance(Len(Clips), "cut")
    /\ Unread /\ Unpublished /\ Outside

\* Fault: the recording is looked at before it is read and not after.
TrustSource(r) ==
    /\ at = CheckStep[r]
    /\ Goto(AfterCheck[r])
    /\ Unbuilt /\ Unread /\ Unpublished /\ Outside

\* After the reading the recording is looked at again, by the descriptor and by
\* the path.
CheckSource(r) ==
    /\ at = CheckStep[r]
    /\ \/ Interrupted \/ Fails
       \/ source = "same" /\ Goto(AfterCheck[r])
    /\ Unbuilt /\ Unread /\ Unpublished /\ Outside

-----------------------------------------------------------------------------
(* DeliveryBuild                                                             *)

Render ==
    /\ at = "render"
    /\ \/ Interrupted \/ Fails
       \/ Goto(IF Clips = <<>> THEN "write" ELSE "open")
    /\ Unbuilt /\ Unread /\ Unpublished /\ Outside

WriteDocument ==
    /\ at = "write"
    /\ \/ Interrupted /\ Unbuilt
       \/ Fails /\ Unbuilt
       \/ /\ Put(Docs[index], "rendered")
          /\ declared' = [declared EXCEPT ![Docs[index]] = "rendered"] /\ UNCHANGED derived
          /\ Advance(Len(Docs), "manifest")
    /\ Unread /\ Unpublished /\ Outside

\* The manifest is written last, and then the unverified delivery is issued.
WriteManifest ==
    /\ at = "manifest"
    /\ \/ Interrupted /\ Unbuilt
       \/ Fails /\ Unbuilt
       \/ Put("manifest", declared) /\ Goto("inspect") /\ UNCHANGED <<derived, declared>>
    /\ Unread /\ Unpublished /\ Outside

Reading == (\E r \in Readers : OpenSource(r) \/ ReadSource(r) \/ CheckSource(r)) \/ Export
Build   == Render \/ WriteDocument \/ WriteManifest

-----------------------------------------------------------------------------
(* DeliveryVerification                                                      *)

\* inspect_tree; two inspections are equal if every revision is.
SameTree(a) == \A n \in Names : a[n].revision = dir[n].revision

Inspect ==
    /\ at = "inspect"
    /\ \/ (Interrupted \/ Fails) /\ Unread
       \/ tree' = dir /\ Goto("listing") /\ UNCHANGED <<read, evidence>>
    /\ Unbuilt /\ Unpublished /\ Outside

\* The manifest that is read here is the one everything is compared with.
ReadManifest ==
    /\ at = "listing"
    /\ \/ Fails /\ Unread
       \/ /\ Present("manifest")
          /\ read' = dir["manifest"].is /\ Goto("load")
          /\ UNCHANGED <<tree, evidence>>
    /\ Unbuilt /\ Unpublished /\ Outside

\* The documents are read before the manifest's hashes are looked at; they are
\* hashed as they were read.
Load ==
    /\ at = "load"
    /\ \/ Fails
       \/ /\ Present(Docs[index]) /\ dir[Docs[index]].is = read[Docs[index]]
          /\ Advance(Len(Docs), "relate")
    /\ Unbuilt /\ Unread /\ Unpublished /\ Outside

\* The documents against each other, and the names of the tree against the
\* manifest's.
Relate ==
    /\ at = "relate"
    /\ \/ Fails
       \/ /\ \A n \in Names : (tree[n].revision > 0) = (n = "manifest" \/ (n \in Files /\ read[n] # "absent"))
          /\ Goto(IF Clips = <<>> THEN "reinspect" ELSE "measure")
    /\ Unbuilt /\ Unread /\ Unpublished /\ Outside

\* Length, hash and probe of one clip.
Measure ==
    /\ at = "measure"
    /\ \/ Interrupted \/ Fails
       \/ /\ Present(Clips[index]) /\ dir[Clips[index]].is = read[Clips[index]]
          /\ Advance(Len(Clips), "reinspect")
    /\ Unbuilt /\ Unread /\ Unpublished /\ Outside

\* Fault: the tree is bound as it is now, not compared with the first one.
BindWithoutComparing ==
    /\ at = "reinspect"
    /\ \/ (Interrupted \/ Fails) /\ Unread
       \/ /\ evidence' = [tree |-> dir, contents |-> read, bound |-> TRUE]
          /\ Goto("enter") /\ UNCHANGED <<read, tree>>
    /\ Unbuilt /\ Unpublished /\ Outside

\* The tree must be the one of the beginning; the verified delivery is bound
\* to it and to the contents.
Reinspect ==
    /\ at = "reinspect"
    /\ \/ (Interrupted \/ Fails) /\ Unread
       \/ /\ SameTree(tree)
          /\ evidence' = [tree |-> tree, contents |-> read, bound |-> TRUE]
          /\ Goto("enter") /\ UNCHANGED <<read, tree>>
    /\ Unbuilt /\ Unpublished /\ Outside

Verify == Inspect \/ ReadManifest \/ Load \/ Relate \/ Measure \/ Reinspect

-----------------------------------------------------------------------------
(* Publication                                                               *)

\* Bindings and destination; then the tree.
Enter ==
    /\ at = "enter"
    /\ \/ Interrupted \/ Fails
       \/ SameTree(evidence.tree) /\ Goto("hash")
    /\ Unbuilt /\ Unread /\ Unpublished /\ Outside

\* _delivery_snapshot, one file; all of them in the order of their names.
Hash ==
    /\ at = "hash"
    /\ LET files == Clips \o Docs
       IN  \/ (Interrupted \/ Fails) /\ Unread
           \/ /\ Present(files[index])
              /\ read' = [read EXCEPT ![files[index]] = dir[files[index]].is]
              /\ Advance(Len(files), "recompare") /\ UNCHANGED <<tree, evidence>>
    /\ Unbuilt /\ Unpublished /\ Outside

\* The authority of the PublishedDelivery: good for the callback's own check, for
\* use as the final delivery, or for nothing any more.
Issue    == proof' = "publishing"
Activate == proof' = "published"
Revoke   == proof' = "revoked"

\* The tree and the snapshot again, then the proof for the callback.
Prepare ==
    /\ at = "recompare"
    /\ \/ (Interrupted \/ Fails) /\ Unpublished
       \/ /\ SameTree(evidence.tree) /\ read = evidence.contents
          /\ Issue /\ callback' = "active"
          /\ Goto("callback") /\ UNCHANGED <<reached, visible>>
    /\ Unbuilt /\ Unread /\ Outside

\* Fault: effect does not ask whether the callback is still active, or whether
\* the commit was reached.
EffectAllowedAlways == TRUE

\* The guards of effect: the thread of the callback, its scope, and once.
EffectAllowed == callback = "active" /\ ~reached

\* The callback, or whoever it handed the effect to, calls it - at any time.
\* What the guards refuse does nothing.
CallEffect ==
    /\ at \in {"callback", "ended"} /\ callback # "idle"
    /\ EffectAllowed
    /\ at' = "effect" /\ UNCHANGED <<index, result>>
    /\ Unbuilt /\ Unread /\ Unpublished /\ Outside

\* effect raises: back into the callback, which may go on, try again or raise.
EffectRaises == at' = "callback" /\ UNCHANGED <<index, result>>

\* Cancellation, bindings, destination and the tree.
CheckEffect ==
    /\ at = "effect"
    /\ \/ EffectRaises
       \/ SameTree(evidence.tree) /\ at' = "exchange" /\ UNCHANGED <<index, result>>
    /\ Unbuilt /\ Unread /\ Unpublished /\ Outside

\* Fault: the tree is not inspected again in the exclusive effect.
SkipLastInspection ==
    /\ at = "exchange"
    /\ at' = "swap" /\ UNCHANGED <<index, result>>
    /\ Unbuilt /\ Unread /\ Unpublished /\ Outside

\* _publish_as_current_delivery: the tree once more, under the exclusive effect,
\* which keeps the run's own threads away and nobody else.
LastInspection ==
    /\ at = "exchange"
    /\ \/ EffectRaises
       \/ SameTree(evidence.tree) /\ at' = "swap" /\ UNCHANGED <<index, result>>
    /\ Unbuilt /\ Unread /\ Unpublished /\ Outside

\* The transaction commits, restores what was there, or cannot tell.
Swap ==
    /\ at = "swap"
    /\ EffectRaises
    /\ \/ Unpublished
       \/ visible' = "unknown" /\ UNCHANGED <<proof, callback, reached>>
       \/ visible' = "new" /\ reached' = TRUE /\ UNCHANGED <<proof, callback>>
    /\ Unbuilt /\ Unread /\ Outside

\* Fault: a callback that raises revokes the proof, whatever was reached.
RevokeOnRaise ==
    /\ at = "callback"
    /\ callback' = "over"
    /\ \/ Revoke /\ End("failed")
       \/ reached /\ Activate /\ End("published")
    /\ UNCHANGED <<reached, visible>>
    /\ Unbuilt /\ Unread /\ Outside

\* The callback returns or raises: after the commit point the proof becomes the
\* published delivery all the same, before it the proof is revoked.
LeaveCallback ==
    /\ at = "callback"
    /\ callback' = "over"
    /\ IF reached
       THEN Activate /\ End("published")
       ELSE Revoke /\ (Fails \/ Interrupted)
    /\ UNCHANGED <<reached, visible>>
    /\ Unbuilt /\ Unread /\ Outside

Publish == Enter \/ Hash \/ Prepare \/ CallEffect \/ CheckEffect \/ LastInspection \/ Swap \/ LeaveCallback

-----------------------------------------------------------------------------
(* Everybody else                                                            *)

\* Another program writes, creates or removes a file of the staging directory.
\* What becomes visible is out of its reach, as far as the chain goes.
Edit(n) ==
    /\ edits < MaxEdits /\ visible = "old" /\ at \notin ReadSteps \cup {"ended"}
    /\ edits' = edits + 1
    /\ late' = (late \/ at = "swap")
    /\ \/ Present(n) /\ dir' = [dir EXCEPT ![n] = Missing(n)]
       \/ \E c \in IF n = "manifest" THEN {[f \in Files |-> "edited"]} ELSE {"rendered", "edited"} :
            dir' = [dir EXCEPT ![n] = File(c, edits + 2)]
    /\ UNCHANGED <<at, index, source, derived, declared, stopped, result>> /\ Unread /\ Unpublished

ChangeSource ==
    /\ source = "same" /\ at \in ReadSteps \cup BuildSteps
    /\ source' = "changed"
    /\ UNCHANGED <<at, index, stopped, result, edits, late>> /\ Unbuilt /\ Unread /\ Unpublished

Cancel ==
    /\ ~stopped /\ at # "ended"
    /\ stopped' = TRUE
    /\ UNCHANGED <<at, index, source, result, edits, late>> /\ Unbuilt /\ Unread /\ Unpublished

Others == (\E n \in Names : Edit(n)) \/ ChangeSource \/ Cancel

ChainNext == Reading \/ Build \/ Verify \/ Publish \/ Others

ChainSpec == ChainInit /\ [][ChainNext]_chainVars

-----------------------------------------------------------------------------
(* Properties                                                                *)

\* A verified delivery is bound to one state of the directory: what was read at
\* different times is what the bound tree holds, and what its manifest lists.
VerifiedIsOneState ==
    evidence.bound =>
        /\ evidence.tree["manifest"].is = evidence.contents
        /\ \A f \in Files : evidence.tree[f].is = evidence.contents[f]

\* What the operator gets is what was verified, unless another program changed
\* it in the moment after the last inspection.
PublishedAsVerified ==
    visible = "new" /\ ~late =>
        /\ dir["manifest"].is = evidence.contents
        /\ \A f \in Files : dir[f].is = evidence.contents[f]
        /\ ~Present(Alien)

\* Where no other program edited the directory, it is what the run computed;
\* and nothing of it was made from a recording that had changed.
PublishedAsComputed ==
    visible = "new" => /\ derived = {}
                       /\ edits = 0 => \A f \in Files : dir[f].is = "rendered"

\* When publish is over, the published capability can be used if and only if
\* the delivery was committed, whatever the callback did after or before.
CapabilityTruthful ==
    at = "ended" =>
        /\ (proof = "published") = (visible = "new")
        /\ (result = "published") = (visible = "new")
        /\ proof # "publishing"

\* From build to publication no stage lets through what it did not see, and no
\* capability outlives what it stands for.
DeliverySound == VerifiedIsOneState /\ PublishedAsVerified /\ PublishedAsComputed /\ CapabilityTruthful
=============================================================================
