---------------------------- MODULE StoresProofs ----------------------------
(***************************************************************************)
(* What ingestion keeps for any number of processes, roots and partitions, *)
(* and that the composition keeps it.  Neither ListedAreWhole nor          *)
(* NothingLostAlone is inductive: the text a call holds between reading    *)
(* and rewriting the manifest is as much state as the manifest, and        *)
(* IngestInv says what is true of it.                                      *)
(***************************************************************************)
EXTENDS Stores, SumProofs

\* A call that finished its partition file refers to a complete one.
WrittenIsWhole ==
  \A q \in Ingesters :
    ingest[q].step \in {"written", "listed", "opened"} =>
      ingest[q].part \in whole

\* The manifest a call is about to write lists complete partitions of its
\* root, its own among them.
TextIsWhole ==
  \A q \in Ingesters :
    ingest[q].step \in {"listed", "opened"} =>
      /\ ingest[q].text.files \subseteq whole
      /\ ~ingest[q].text.torn
      /\ ingest[q].part \in ingest[q].text.files
      /\ \A part \in ingest[q].text.files : part.root = ingest[q].part.root

\* Where no overlap was recorded, one call at most has the manifest, its
\* text contains all that is listed, and once it has the file open the file
\* is truncated.
AloneOnManifest ==
  \A r \in Roots \ raced, q \in Ingesters :
    OnManifest(q, r) =>
      /\ \A other \in Ingesters : OnManifest(other, r) => other = q
      /\ manifest[r].files \subseteq ingest[q].text.files
      /\ ingest[q].step = "opened" => manifest[r].torn

IngestInv ==
  /\ IngestTypeOK
  /\ WrittenIsWhole
  /\ TextIsWhole
  /\ ListedAreWhole
  /\ AloneOnManifest
  /\ NothingLostAlone

\* A call's record, by the step it is at.
LEMMA CallTypes ==
  ASSUME IngestTypeOK, NEW q \in Ingesters
  PROVE  /\ ingest[q].step \in
              {"rest", "writing", "written", "listed", "opened"}
         /\ ingest[q].step = "rest" <=> ingest[q] = Rest
         /\ ingest[q] # Rest => /\ ingest[q].part \in Partitions
                                /\ ingest[q].part.root \in Roots
         /\ ingest[q].step \in {"writing", "written"} => ingest[q] \in Early
         /\ ingest[q].step \in {"listed", "opened"} => ingest[q] \in Late
<1>1. ingest[q] \in {Rest} \cup Early \cup Late
  BY DEF IngestTypeOK
<1>2. ASSUME NEW part \in Partitions PROVE part.root \in Roots
  BY DEF Partitions
<1>3. CASE ingest[q] = Rest
  BY <1>3 DEF Rest
<1>4. CASE ingest[q] \in Early
  BY <1>2, <1>4 DEF Early, Rest
<1>5. CASE ingest[q] \in Late
  BY <1>2, <1>5 DEF Late, Rest
<1> QED BY <1>1, <1>3, <1>4, <1>5

\* Adding a partition to a manifest gives a manifest.
LEMMA AddedType ==
  ASSUME NEW seen \in Manifests, NEW part \in Partitions
  PROVE  Added(seen, part) \in Manifests
<1>1. part.rows \in Nat /\ part.dataset \in Datasets
  BY SizesAssumption DEF Partitions
<1>2. [seen.rows EXCEPT ![part.dataset] = @ + part.rows]
        \in [Datasets -> Nat]
  BY <1>1 DEF Manifests
<1> QED BY <1>2 DEF Added, Manifests

\* Every step of a call, and its death, keeps the types.
LEMMA TypeStep == IngestTypeOK /\ [IngestNext]_ingestVars => IngestTypeOK'
<1> SUFFICES ASSUME IngestTypeOK, [IngestNext]_ingestVars
             PROVE  IngestTypeOK'
  OBVIOUS
<1>1. ASSUME NEW q \in Ingesters, NEW part \in Partitions,
             OpenPartition(q, part)
      PROVE  IngestTypeOK'
  <2>1. [step |-> "writing", part |-> part] \in Early
    BY DEF Early
  <2>2. part.name \in Names
    BY DEF Partitions
  <2> QED BY <1>1, <2>1, <2>2 DEF OpenPartition, IngestTypeOK
<1>2. ASSUME NEW q \in Ingesters, FinishPartition(q)
      PROVE  IngestTypeOK'
  <2>1. ingest[q] \in Early
    BY <1>2, CallTypes DEF FinishPartition
  <2>2. [ingest[q] EXCEPT !.step = "written"] \in Early
    BY <2>1 DEF Early
  <2>3. ingest[q].part \in Partitions
    BY <2>1 DEF Early
  <2> QED BY <1>2, <2>2, <2>3 DEF FinishPartition, IngestTypeOK
<1>3. ASSUME NEW q \in Ingesters, ReadManifest(q)
      PROVE  IngestTypeOK'
  <2> DEFINE part == ingest[q].part
             call == [step |-> "listed", part |-> part,
                      text |-> Added(manifest[part.root], part)]
  <2>1. part \in Partitions /\ part.root \in Roots
    BY <1>3, CallTypes DEF ReadManifest, Rest
  <2>2. manifest[part.root] \in Manifests
    BY <2>1 DEF IngestTypeOK
  <2>3. Added(manifest[part.root], part) \in Manifests
    BY <2>1, <2>2, AddedType
  <2>4. call \in Late
    BY <2>1, <2>3 DEF Late
  <2>5. \/ ingest' = [ingest EXCEPT ![q] = Rest]
        \/ ingest' = [ingest EXCEPT ![q] = call]
    BY <1>3 DEF ReadManifest
  <2> HIDE DEF call
  <2>6. ingest' \in [Ingesters -> {Rest} \cup Early \cup Late]
    BY <2>4, <2>5 DEF IngestTypeOK
  <2>7. raced' \subseteq Roots
    BY <1>3, <2>1 DEF ReadManifest, IngestTypeOK
  <2> QED BY <1>3, <2>6, <2>7 DEF ReadManifest, IngestTypeOK
<1>4. ASSUME NEW q \in Ingesters, OpenManifest(q)
      PROVE  IngestTypeOK'
  <2>1. ingest[q] \in Late
    BY <1>4, CallTypes DEF OpenManifest
  <2>2. [ingest[q] EXCEPT !.step = "opened"] \in Late
    BY <2>1 DEF Late
  <2>3. ASSUME NEW r \in Roots
        PROVE  [manifest[r] EXCEPT !.torn = TRUE] \in Manifests
    BY DEF IngestTypeOK, Manifests
  <2>4. manifest' \in [Roots -> Manifests]
    BY <1>4, <2>3 DEF OpenManifest, IngestTypeOK
  <2> QED BY <1>4, <2>2, <2>4 DEF OpenManifest, IngestTypeOK
<1>5. ASSUME NEW q \in Ingesters, FinishManifest(q)
      PROVE  IngestTypeOK'
  <2>1. ingest[q] \in Late
    BY <1>5, CallTypes DEF FinishManifest
  <2>2. /\ ingest[q].text \in Manifests
        /\ ingest[q].part \in Partitions
    BY <2>1 DEF Late
  <2>3. [ingest[q].text EXCEPT !.torn = TRUE] \in Manifests
    BY <2>2 DEF Manifests
  <2>4. manifest' \in [Roots -> Manifests]
    BY <1>5, <2>2, <2>3 DEF FinishManifest, IngestTypeOK
  <2> QED BY <1>5, <2>2, <2>4 DEF FinishManifest, IngestTypeOK
<1>6. ASSUME NEW q \in Ingesters, ingest[q] # Rest, Die(q)
      PROVE  IngestTypeOK'
  <2>1. ingest[q].part.root \in Roots
    BY <1>6, CallTypes
  <2> QED BY <1>6, <2>1 DEF Die, IngestTypeOK
<1>7. CASE UNCHANGED ingestVars
  BY <1>7 DEF ingestVars, IngestTypeOK
<1> QED
  BY <1>1, <1>2, <1>3, <1>4, <1>5, <1>6, <1>7 DEF IngestNext, IngestStep

\* The overlap history only grows.
LEMMA RacedGrows ==
  ASSUME [IngestNext]_ingestVars
  PROVE  raced \subseteq raced'
BY DEF IngestNext, IngestStep, OpenPartition, FinishPartition, ReadManifest,
       OpenManifest, FinishManifest, Die, ingestVars

\* Opening, finishing and reading keep what is true of the calls.
LEMMA InvStep == IngestInv /\ [IngestNext]_ingestVars => IngestInv'
<1> SUFFICES ASSUME IngestInv, [IngestNext]_ingestVars PROVE IngestInv'
  OBVIOUS
<1>t. IngestTypeOK /\ IngestTypeOK'
  BY TypeStep DEF IngestInv
<1>i. /\ WrittenIsWhole /\ TextIsWhole /\ ListedAreWhole
      /\ AloneOnManifest /\ NothingLostAlone
  BY DEF IngestInv
<1>d. DOMAIN ingest = Ingesters /\ DOMAIN manifest = Roots
  BY <1>t DEF IngestTypeOK
<1>c. \A q \in Ingesters :
        /\ ingest[q].step \in
             {"rest", "writing", "written", "listed", "opened"}
        /\ ingest[q].step = "rest" <=> ingest[q] = Rest
  BY <1>t, CallTypes
<1>f. ASSUME NEW q \in Ingesters, ingest[q] # Rest
      PROVE  ingest[q].part \in Partitions /\ ingest[q].part.root \in Roots
  BY <1>f, <1>t, CallTypes
<1>1. ASSUME NEW q \in Ingesters, NEW part \in Partitions,
             OpenPartition(q, part)
      PROVE  IngestInv'
  <2>1. \A p \in Ingesters \ {q} : ingest'[p] = ingest[p]
    BY <1>1, <1>d DEF OpenPartition
  <2>2. ingest[q].step = "rest" /\ ingest'[q].step = "writing"
    BY <1>1, <1>d DEF OpenPartition, Rest
  <2>3. UNCHANGED <<whole, manifest, acked, raced>>
    BY <1>1 DEF OpenPartition
  <2>4. WrittenIsWhole' /\ TextIsWhole' /\ ListedAreWhole'
    BY <1>i, <2>1, <2>2, <2>3
    DEF WrittenIsWhole, TextIsWhole, ListedAreWhole
  <2>5. AloneOnManifest' /\ NothingLostAlone'
    BY <1>i, <2>1, <2>2, <2>3 DEF AloneOnManifest, NothingLostAlone,
                                   OnManifest
  <2> QED BY <1>t, <2>4, <2>5 DEF IngestInv
<1>2. ASSUME NEW q \in Ingesters, FinishPartition(q)
      PROVE  IngestInv'
  <2>1. \A p \in Ingesters \ {q} : ingest'[p] = ingest[p]
    BY <1>2, <1>d DEF FinishPartition
  <2>2. /\ ingest[q].step = "writing" /\ ingest'[q].step = "written"
        /\ ingest'[q].part = ingest[q].part
    BY <1>2, <1>d, <1>t, CallTypes DEF FinishPartition, Early
  <2>3. /\ UNCHANGED <<manifest, acked, raced>>
        /\ whole' = whole \cup {ingest[q].part}
    BY <1>2 DEF FinishPartition
  <2>4. WrittenIsWhole' /\ TextIsWhole' /\ ListedAreWhole'
    BY <1>i, <2>1, <2>2, <2>3
    DEF WrittenIsWhole, TextIsWhole, ListedAreWhole
  <2>5. AloneOnManifest' /\ NothingLostAlone'
    BY <1>i, <2>1, <2>2, <2>3 DEF AloneOnManifest, NothingLostAlone,
                                   OnManifest
  <2> QED BY <1>t, <2>4, <2>5 DEF IngestInv
<1>3. ASSUME NEW q \in Ingesters, ReadManifest(q)
      PROVE  IngestInv'
  <2> DEFINE part == ingest[q].part
             seen == manifest[part.root]
  <2>1. \A p \in Ingesters \ {q} : ingest'[p] = ingest[p]
    BY <1>3, <1>d DEF ReadManifest
  <2>2. /\ UNCHANGED <<whole, manifest, acked>>
        /\ ingest[q].step = "written" /\ part \in whole
        /\ part \in Partitions /\ part.root \in Roots
    BY <1>3, <1>f, <1>i DEF ReadManifest, Rest, WrittenIsWhole
  <2>3. CASE seen.torn
    <3>1. ingest'[q].step = "rest" /\ UNCHANGED raced
      BY <1>3, <1>d, <2>3 DEF ReadManifest, Rest
    <3>2. WrittenIsWhole' /\ TextIsWhole' /\ ListedAreWhole'
      BY <1>i, <2>1, <2>2, <3>1
      DEF WrittenIsWhole, TextIsWhole, ListedAreWhole
    <3>3. AloneOnManifest' /\ NothingLostAlone'
      BY <1>i, <2>1, <2>2, <3>1 DEF AloneOnManifest, NothingLostAlone,
                                     OnManifest
    <3> QED BY <1>t, <3>2, <3>3 DEF IngestInv
  <2>4. CASE ~seen.torn
    <3>1. /\ ingest'[q].step = "listed" /\ ingest'[q].part = part
          /\ ingest'[q].text.files = seen.files \cup {part}
          /\ ~ingest'[q].text.torn
          /\ raced' = IF \E r \in Ingesters : OnManifest(r, part.root)
                      THEN raced \cup {part.root} ELSE raced
      BY <1>3, <1>d, <2>4 DEF ReadManifest, Added
    <3>2. WrittenIsWhole' /\ TextIsWhole' /\ ListedAreWhole'
      BY <1>i, <2>1, <2>2, <3>1
      DEF WrittenIsWhole, TextIsWhole, ListedAreWhole
    <3>3. ASSUME NEW r \in Roots \ raced', NEW p \in Ingesters,
                 OnManifest(p, r)'
          PROVE  /\ \A other \in Ingesters : OnManifest(other, r)' => other = p
                 /\ manifest'[r].files \subseteq ingest'[p].text.files
                 /\ ingest'[p].step = "opened" => manifest'[r].torn
      <4>1. r \in Roots \ raced
        BY <3>1
      <4>2. CASE r = part.root
        <5>1. \A other \in Ingesters : ~OnManifest(other, r)
          BY <3>1, <3>3, <4>2
        <5>2. \A other \in Ingesters \ {q} : ~OnManifest(other, r)'
          BY <5>1, <2>1 DEF OnManifest
        <5> QED BY <5>2, <3>1, <3>3, <2>2, <4>2
      <4>3. CASE r # part.root
        <5>1. p # q /\ OnManifest(p, r)
          BY <3>1, <3>3, <2>1, <4>3 DEF OnManifest
        <5>2. ~OnManifest(q, r)'
          BY <3>1, <4>3 DEF OnManifest
        <5>3. /\ \A other \in Ingesters : OnManifest(other, r) => other = p
              /\ manifest[r].files \subseteq ingest[p].text.files
              /\ ingest[p].step = "opened" => manifest[r].torn
          BY <1>i, <4>1, <5>1 DEF AloneOnManifest
        <5>4. \A other \in Ingesters : OnManifest(other, r)' => other = p
          BY <5>2, <5>3, <2>1 DEF OnManifest
        <5> QED BY <5>1, <5>3, <5>4, <2>1, <2>2
      <4> QED BY <4>2, <4>3
    <3>4. AloneOnManifest'
      BY <3>3 DEF AloneOnManifest
    <3>5. NothingLostAlone'
      <4>1. raced \subseteq raced'
        BY <3>1
      <4> QED BY <1>i, <2>1, <2>2, <3>1, <4>1 DEF NothingLostAlone, OnManifest
    <3> QED BY <1>t, <3>2, <3>4, <3>5 DEF IngestInv
  <2> QED BY <2>3, <2>4
<1>4. ASSUME NEW q \in Ingesters, OpenManifest(q)
      PROVE  IngestInv'
  <2> DEFINE part == ingest[q].part
  <2>1. \A p \in Ingesters \ {q} : ingest'[p] = ingest[p]
    BY <1>4, <1>d DEF OpenManifest
  <2>2. /\ ingest[q].step = "listed" /\ ingest'[q].step = "opened"
        /\ ingest'[q].part = part /\ ingest'[q].text = ingest[q].text
        /\ part.root \in Roots
    BY <1>4, <1>d, <1>t, <1>f, CallTypes DEF OpenManifest, Late, Rest
  <2>3. UNCHANGED <<whole, acked, raced>>
    BY <1>4 DEF OpenManifest
  <2>4. \A r \in Roots :
          /\ manifest'[r].files = manifest[r].files
          /\ manifest'[r].torn = IF r = part.root THEN TRUE
                                 ELSE manifest[r].torn
    <3>1. manifest \in [Roots -> Manifests]
      BY <1>t DEF IngestTypeOK
    <3>2. manifest' = [manifest EXCEPT ![part.root].torn = TRUE]
      BY <1>4 DEF OpenManifest
    <3> QED BY <3>1, <3>2, <2>2 DEF Manifests
  <2>5. \A p \in Ingesters, r \in Roots :
          OnManifest(p, r)' <=> OnManifest(p, r)
    BY <2>1, <2>2 DEF OnManifest
  <2>6. WrittenIsWhole' /\ TextIsWhole' /\ ListedAreWhole'
    <3>1. WrittenIsWhole' /\ TextIsWhole'
      BY <1>i, <2>1, <2>2, <2>3 DEF WrittenIsWhole, TextIsWhole
    <3>2. ListedAreWhole'
      BY <1>i, <2>3, <2>4 DEF ListedAreWhole
    <3> QED BY <3>1, <3>2
  <2>7. AloneOnManifest'
    <3> SUFFICES ASSUME NEW r \in Roots \ raced, NEW p \in Ingesters,
                        OnManifest(p, r)
                 PROVE  /\ \A other \in Ingesters :
                             OnManifest(other, r) => other = p
                        /\ manifest'[r].files \subseteq ingest'[p].text.files
                        /\ ingest'[p].step = "opened" => manifest'[r].torn
      BY <2>3, <2>5 DEF AloneOnManifest
    <3>1. /\ \A other \in Ingesters : OnManifest(other, r) => other = p
          /\ manifest[r].files \subseteq ingest[p].text.files
          /\ ingest[p].step = "opened" => manifest[r].torn
      BY <1>i DEF AloneOnManifest
    <3>2. ingest'[p].text = ingest[p].text
      BY <2>1, <2>2
    <3>3. ASSUME p = q PROVE r = part.root
      BY <3>3 DEF OnManifest
    <3> QED BY <3>1, <3>2, <3>3, <2>1, <2>4
  <2>8. NothingLostAlone'
    <3> SUFFICES ASSUME NEW r \in Roots \ raced
                 PROVE  /\ \A p \in acked : p.root = r =>
                             p \in manifest'[r].files
                        /\ manifest'[r].torn =>
                             \E p \in Ingesters :
                               OnManifest(p, r) /\ ingest'[p].step = "opened"
      BY <2>3, <2>5 DEF NothingLostAlone
    <3>1. /\ \A p \in acked : p.root = r => p \in manifest[r].files
          /\ manifest[r].torn =>
               \E p \in Ingesters :
                 OnManifest(p, r) /\ ingest[p].step = "opened"
      BY <1>i DEF NothingLostAlone
    <3>2. CASE r = part.root
      BY <3>1, <3>2, <2>2, <2>4 DEF OnManifest
    <3>3. CASE r # part.root
      <4>1. \A p \in Ingesters : OnManifest(p, r) => p # q
        BY <3>3 DEF OnManifest
      <4> QED BY <3>1, <3>3, <4>1, <2>1, <2>4
    <3> QED BY <3>2, <3>3
  <2> QED BY <1>t, <2>6, <2>7, <2>8 DEF IngestInv
<1>5. ASSUME NEW q \in Ingesters, FinishManifest(q)
      PROVE  IngestInv'
  <2> DEFINE part == ingest[q].part
             text == ingest[q].text
  <2>1. \A p \in Ingesters \ {q} : ingest'[p] = ingest[p]
    BY <1>5, <1>d DEF FinishManifest
  <2>2. /\ ingest[q].step = "opened" /\ ingest'[q].step = "rest"
        /\ part.root \in Roots /\ OnManifest(q, part.root)
    BY <1>5, <1>d, <1>f DEF FinishManifest, OnManifest, Rest
  <2>3. /\ UNCHANGED <<whole, raced>>
        /\ acked' = acked \cup {part}
    BY <1>5 DEF FinishManifest
  <2>4. /\ \A r \in Roots \ {part.root} : manifest'[r] = manifest[r]
        /\ manifest'[part.root].files = text.files
    <3>1. text \in Manifests
      BY <2>2, <1>t, CallTypes DEF Late
    <3>2. \/ manifest' = [manifest EXCEPT ![part.root] = text]
          \/ manifest' = [manifest EXCEPT ![part.root] =
                            [text EXCEPT !.torn = TRUE]]
      BY <1>5 DEF FinishManifest
    <3>3. [text EXCEPT !.torn = TRUE].files = text.files
      BY <3>1 DEF Manifests
    <3> QED BY <3>2, <3>3, <1>d, <2>2
  <2>5. /\ text.files \subseteq whole
        /\ part \in text.files
        /\ \A p \in text.files : p.root = part.root
    BY <1>i, <2>2 DEF TextIsWhole
  <2>6. WrittenIsWhole' /\ TextIsWhole' /\ ListedAreWhole'
    <3>1. WrittenIsWhole' /\ TextIsWhole'
      BY <1>i, <2>1, <2>2, <2>3 DEF WrittenIsWhole, TextIsWhole
    <3>2. ListedAreWhole'
      BY <1>i, <2>3, <2>4, <2>5 DEF ListedAreWhole
    <3> QED BY <3>1, <3>2
  <2>7. \A p \in Ingesters \ {q}, r \in Roots :
          OnManifest(p, r)' <=> OnManifest(p, r)
    BY <2>1 DEF OnManifest
  <2>8. ~OnManifest(q, part.root)' /\ \A r \in Roots : ~OnManifest(q, r)'
    BY <2>2 DEF OnManifest
  <2>9. part.root \notin raced =>
          \A p \in Ingesters : OnManifest(p, part.root) => p = q
    BY <1>i, <2>2 DEF AloneOnManifest
  <2>10. AloneOnManifest'
    <3> SUFFICES ASSUME NEW r \in Roots \ raced, NEW p \in Ingesters,
                        OnManifest(p, r)'
                 PROVE  /\ \A other \in Ingesters :
                             OnManifest(other, r)' => other = p
                        /\ manifest'[r].files \subseteq ingest'[p].text.files
                        /\ ingest'[p].step = "opened" => manifest'[r].torn
      BY <2>3 DEF AloneOnManifest
    <3>1. p # q /\ OnManifest(p, r)
      BY <2>7, <2>8
    <3>2. r # part.root
      BY <2>9, <3>1
    <3>3. /\ \A other \in Ingesters : OnManifest(other, r) => other = p
          /\ manifest[r].files \subseteq ingest[p].text.files
          /\ ingest[p].step = "opened" => manifest[r].torn
      BY <1>i, <3>1 DEF AloneOnManifest
    <3> QED BY <3>1, <3>2, <3>3, <2>1, <2>4, <2>7, <2>8
  <2>11. NothingLostAlone'
    <3> SUFFICES ASSUME NEW r \in Roots \ raced
                 PROVE  /\ \A p \in acked' : p.root = r =>
                             p \in manifest'[r].files
                        /\ manifest'[r].torn =>
                             \E p \in Ingesters :
                               OnManifest(p, r)' /\ ingest'[p].step = "opened"
      BY <2>3 DEF NothingLostAlone
    <3>1. /\ \A p \in acked : p.root = r => p \in manifest[r].files
          /\ manifest[r].torn =>
               \E p \in Ingesters :
                 OnManifest(p, r) /\ ingest[p].step = "opened"
      BY <1>i DEF NothingLostAlone
    <3>2. CASE r = part.root
      <4>1. /\ manifest[r].files \subseteq text.files
            /\ manifest[r].torn
        BY <1>i, <2>2, <3>2 DEF AloneOnManifest
      <4>2. ~text.torn
        BY <1>i, <2>2 DEF TextIsWhole
      <4>3. manifest'[r].torn = text.torn
        BY <1>5, <1>d, <3>2, <4>1 DEF FinishManifest
      <4> QED BY <3>1, <3>2, <4>1, <4>2, <4>3, <2>3, <2>4, <2>5
    <3>3. CASE r # part.root
      <4>1. \A p \in Ingesters : OnManifest(p, r) => p # q
        BY <3>3 DEF OnManifest
      <4> QED BY <3>1, <3>3, <4>1, <2>1, <2>3, <2>4, <2>7
    <3> QED BY <3>2, <3>3
  <2> QED BY <1>t, <2>6, <2>10, <2>11 DEF IngestInv
<1>6. ASSUME NEW q \in Ingesters, ingest[q] # Rest, Die(q)
      PROVE  IngestInv'
  <2>1. \A p \in Ingesters \ {q} : ingest'[p] = ingest[p]
    BY <1>6, <1>d DEF Die
  <2>2. ingest'[q].step = "rest"
    BY <1>6, <1>d DEF Die, Rest
  <2>3. /\ UNCHANGED <<whole, manifest, acked>>
        /\ raced' = IF ingest[q].step = "opened"
                    THEN raced \cup {ingest[q].part.root} ELSE raced
    BY <1>6 DEF Die
  <2>4. WrittenIsWhole' /\ TextIsWhole' /\ ListedAreWhole'
    BY <1>i, <2>1, <2>2, <2>3
    DEF WrittenIsWhole, TextIsWhole, ListedAreWhole
  <2>5. AloneOnManifest'
    BY <1>i, <2>1, <2>2, <2>3 DEF AloneOnManifest, OnManifest
  <2>6. NothingLostAlone'
    BY <1>i, <2>1, <2>2, <2>3 DEF NothingLostAlone, OnManifest
  <2> QED BY <1>t, <2>4, <2>5, <2>6 DEF IngestInv
<1>7. CASE UNCHANGED ingestVars
  BY <1>t, <1>i, <1>7
  DEF ingestVars, IngestInv, WrittenIsWhole, TextIsWhole, ListedAreWhole,
      AloneOnManifest, NothingLostAlone, OnManifest
<1> QED
  BY <1>1, <1>2, <1>3, <1>4, <1>5, <1>6, <1>7 DEF IngestNext, IngestStep

LEMMA InvInit == IngestInit => IngestInv
BY DEF IngestInit, IngestInv, IngestTypeOK, Manifests, WrittenIsWhole,
       TextIsWhole, ListedAreWhole, AloneOnManifest, NothingLostAlone,
       OnManifest, Empty, Rest

\* For any number of processes: ingestion keeps its inductive invariant.
THEOREM Invariant == IngestSpec => []IngestInv
BY InvInit, InvStep, PTL DEF IngestSpec

\* The state of ingestion keeps its types.
THEOREM TypeCorrect == IngestSpec => []IngestTypeOK
<1>1. IngestInv => IngestTypeOK
  BY DEF IngestInv
<1> QED BY <1>1, Invariant, PTL

\* A manifest lists only complete partition files of its own root, whatever
\* processes overlap or die (pipeline.py, _append_partition).
THEOREM OnlyWholeListed == IngestSpec => []ListedAreWhole
<1>1. IngestInv => ListedAreWhole
  BY DEF IngestInv
<1> QED BY <1>1, Invariant, PTL

\* On a root whose manifest writers never overlapped or died, every
\* acknowledged partition is listed and the manifest readable.
THEOREM NothingLost == IngestSpec => []NothingLostAlone
<1>1. IngestInv => NothingLostAlone
  BY DEF IngestInv
<1> QED BY <1>1, Invariant, PTL

(***************************************************************************)
(* The counts.  A call adds its partition to what it read, so the rows are *)
(* right only because nobody listed that partition before: its name is     *)
(* fresh, and only its own call adds it, once.                             *)
(***************************************************************************)
\* A manifest, or the text of one, counts the rows of a finite set of files.
Counted(m) ==
  /\ IsFiniteSet(m.files)
  /\ \A d \in Datasets : m.rows[d] = RowsOf(m.files, d)
\* A partition is on no manifest, and in no text.
Unlisted(part) ==
  /\ \A r \in Roots : part \notin manifest[r].files
  /\ \A q \in Ingesters :
       ingest[q].step \in {"listed", "opened"} =>
         part \notin ingest[q].text.files

RowsInv ==
  /\ \A r \in Roots : Counted(manifest[r])
  /\ \A q \in Ingesters :
       /\ ingest[q].step \in {"listed", "opened"} => Counted(ingest[q].text)
       /\ ingest[q].step \in {"writing", "written"} => Unlisted(ingest[q].part)
       /\ ingest[q] # Rest =>
            /\ ingest[q].part.name \in named
            /\ \A p \in Ingesters :
                 ingest[p] # Rest /\ ingest[p].part = ingest[q].part => p = q
  /\ \A part \in whole : part.name \in named

LEMMA AddedRows ==
  ASSUME NEW seen \in Manifests, Counted(seen), NEW part \in Partitions,
         part \notin seen.files
  PROVE  Counted(Added(seen, part))
<1> DEFINE files == seen.files \cup {part}
           rows == [p \in Partitions |-> p.rows]
<1>1. /\ seen.rows \in [Datasets -> Nat] /\ seen.files \subseteq Partitions
      /\ IsFiniteSet(seen.files)
  BY DEF Manifests, Counted
<1>2. /\ Added(seen, part).files = files
      /\ \A d \in Datasets : Added(seen, part).rows[d]
           = IF d = part.dataset THEN seen.rows[d] + part.rows ELSE seen.rows[d]
  BY <1>1 DEF Added
<1>3. \A p \in Partitions : rows[p] = p.rows /\ rows[p] \in Int
  <2>1. \A p \in Partitions : p.rows \in Nat
    BY SizesAssumption DEF Partitions
  <2>2. QED
    BY <2>1
<1>4. IsFiniteSet(files)
  BY <1>1, FS_AddElement
<1>5. ASSUME NEW d \in Datasets
      PROVE  Added(seen, part).rows[d] = RowsOf(files, d)
  <2> DEFINE before == {p \in seen.files : p.dataset = d}
             after  == {p \in files : p.dataset = d}
  <2>1. IsFiniteSet(before) /\ before \subseteq Partitions /\ part \notin before
    BY <1>1, FS_Subset
  <2>2. seen.rows[d] = SumFunctionOnSet(rows, before)
    BY DEF Counted, RowsOf
  <2>3. RowsOf(files, d) = SumFunctionOnSet(rows, after)
    BY DEF RowsOf
  <2>4. CASE d = part.dataset
    <3>1. after = before \cup {part}
      BY <2>4
    <3> HIDE DEF before, after, rows
    <3>2. \A p \in before \cup {part} : rows[p] \in Int
      BY <1>3, <2>1
    <3>3. SumFunctionOnSet(rows, before \cup {part})
            = SumFunctionOnSet(rows, before) + rows[part]
      BY <2>1, <3>2, SumAdd
    <3>4. QED
      BY <1>2, <1>3, <2>2, <2>3, <2>4, <3>1, <3>3
  <2>5. CASE d # part.dataset
    <3>1. after = before
      BY <2>5
    <3>2. QED
      BY <1>2, <2>2, <2>3, <2>5, <3>1
  <2>6. QED
    BY <2>4, <2>5
<1>6. QED
  BY <1>2, <1>4, <1>5 DEF Counted

LEMMA RowsStep ==
  IngestInv /\ RowsInv /\ [IngestNext]_ingestVars => RowsInv'
<1> SUFFICES ASSUME IngestInv, RowsInv, [IngestNext]_ingestVars PROVE RowsInv'
  OBVIOUS
<1>t. IngestTypeOK /\ ListedAreWhole /\ TextIsWhole
  BY DEF IngestInv
<1>d. DOMAIN ingest = Ingesters /\ DOMAIN manifest = Roots
  BY <1>t DEF IngestTypeOK
<1>c. \A q \in Ingesters :
        /\ ingest[q].step \in
             {"rest", "writing", "written", "listed", "opened"}
        /\ ingest[q].step = "rest" <=> ingest[q] = Rest
        /\ ingest[q] # Rest => /\ ingest[q].part \in Partitions
                               /\ ingest[q].part.root \in Roots
  BY <1>t, CallTypes
<1>1. ASSUME NEW q \in Ingesters, NEW part \in Partitions,
             OpenPartition(q, part)
      PROVE  RowsInv'
  <2>1. /\ \A p \in Ingesters \ {q} : ingest'[p] = ingest[p]
        /\ ingest[q] = Rest /\ ingest[q].step = "rest"
        /\ ingest'[q].step = "writing" /\ ingest'[q].part = part
        /\ UNCHANGED <<whole, manifest>>
        /\ part.name \notin named /\ named' = named \cup {part.name}
    BY <1>1, <1>d DEF OpenPartition, Rest
  <2>2. Unlisted(part)
    <3>1. part \notin whole
      BY <2>1 DEF RowsInv
    <3>2. QED
      BY <3>1, <1>t DEF Unlisted, ListedAreWhole, TextIsWhole
  <2>3. \A p \in Partitions : Unlisted(p) => Unlisted(p)'
    BY <2>1 DEF Unlisted
  <2>4. \A p \in Ingesters \ {q} : ingest[p] # Rest => ingest[p].part # part
    BY <2>1 DEF RowsInv
  <2>5. QED
    BY <1>c, <2>1, <2>2, <2>3, <2>4 DEF RowsInv, Rest
<1>2. ASSUME NEW q \in Ingesters, FinishPartition(q)
      PROVE  RowsInv'
  <2>1. /\ \A p \in Ingesters \ {q} : ingest'[p] = ingest[p]
        /\ ingest[q].step = "writing" /\ ingest'[q].step = "written"
        /\ ingest'[q].part = ingest[q].part
        /\ UNCHANGED <<named, manifest>> /\ whole' = whole \cup {ingest[q].part}
        /\ ingest[q] # Rest /\ ingest'[q] # Rest
    BY <1>2, <1>d, <1>t, CallTypes DEF FinishPartition, Early, Rest
  <2>2. \A p : Unlisted(p) => Unlisted(p)'
    BY <2>1 DEF Unlisted
  <2>3. QED
    BY <2>1, <2>2 DEF RowsInv
<1>3. ASSUME NEW q \in Ingesters, ReadManifest(q)
      PROVE  RowsInv'
  <2> DEFINE part == ingest[q].part
             seen == manifest[part.root]
  <2>1. /\ \A p \in Ingesters \ {q} : ingest'[p] = ingest[p]
        /\ UNCHANGED <<named, whole, manifest>>
        /\ ingest[q].step = "written" /\ ingest[q] # Rest
        /\ part \in Partitions /\ part.root \in Roots
    BY <1>3, <1>c, <1>d DEF ReadManifest, Rest
  <2>2. CASE seen.torn
    <3>1. ingest'[q] = Rest /\ ingest'[q].step = "rest"
      BY <1>3, <1>d, <2>2 DEF ReadManifest, Rest
    <3>2. \A p : Unlisted(p) => Unlisted(p)'
      BY <2>1, <3>1 DEF Unlisted
    <3>3. QED
      BY <2>1, <3>1, <3>2 DEF RowsInv
  <2>3. CASE ~seen.torn
    <3>1. /\ ingest'[q].step = "listed" /\ ingest'[q].part = part
          /\ ingest'[q].text = Added(seen, part) /\ ingest'[q] # Rest
          /\ Added(seen, part).files = seen.files \cup {part}
      BY <1>3, <1>d, <2>3 DEF ReadManifest, Added, Rest
    <3>2. seen \in Manifests /\ Counted(seen) /\ part \notin seen.files
      BY <1>t, <2>1 DEF IngestTypeOK, RowsInv, Unlisted
    <3>3. Counted(Added(seen, part))
      BY <2>1, <3>2, AddedRows
    <3>4. ASSUME NEW p \in Ingesters \ {q},
                 ingest[p].step \in {"writing", "written"}
          PROVE  Unlisted(ingest[p].part)'
      <4>1. ingest[p].part # part /\ Unlisted(ingest[p].part)
        BY <1>c, <2>1, <3>4 DEF RowsInv
      <4>2. ingest[p].part \notin seen.files \cup {part}
        BY <2>1, <4>1 DEF Unlisted
      <4>3. ingest'[p].part = ingest[p].part
        BY <2>1
      <4>4. QED
        BY <2>1, <3>1, <4>1, <4>2, <4>3 DEF Unlisted
    <3>5. QED
      BY <2>1, <3>1, <3>3, <3>4 DEF RowsInv
  <2>4. QED
    BY <2>2, <2>3
<1>4. ASSUME NEW q \in Ingesters, OpenManifest(q)
      PROVE  RowsInv'
  <2>1. /\ \A p \in Ingesters \ {q} : ingest'[p] = ingest[p]
        /\ ingest[q].step = "listed" /\ ingest'[q].step = "opened"
        /\ ingest'[q].part = ingest[q].part /\ ingest'[q].text = ingest[q].text
        /\ UNCHANGED <<named, whole>>
        /\ ingest[q] # Rest /\ ingest'[q] # Rest
    BY <1>4, <1>d, <1>t, CallTypes DEF OpenManifest, Late, Rest
  <2>2. \A r \in Roots : /\ manifest'[r].files = manifest[r].files
                         /\ manifest'[r].rows = manifest[r].rows
    <3>1. manifest \in [Roots -> Manifests]
      BY <1>t DEF IngestTypeOK
    <3>2. manifest' = [manifest EXCEPT ![ingest[q].part.root].torn = TRUE]
      BY <1>4 DEF OpenManifest
    <3>3. QED
      BY <3>1, <3>2 DEF Manifests
  <2>3. \A p : Unlisted(p) => Unlisted(p)'
    BY <2>1, <2>2 DEF Unlisted
  <2>4. \A r \in Roots : Counted(manifest[r])'
    BY <2>2 DEF RowsInv, Counted
  <2>5. QED
    BY <2>1, <2>3, <2>4 DEF RowsInv
<1>5. ASSUME NEW q \in Ingesters, FinishManifest(q)
      PROVE  RowsInv'
  <2> DEFINE part == ingest[q].part
             text == ingest[q].text
  <2>1. /\ \A p \in Ingesters \ {q} : ingest'[p] = ingest[p]
        /\ ingest[q].step = "opened" /\ ingest'[q] = Rest
        /\ ingest'[q].step = "rest" /\ UNCHANGED <<named, whole>>
        /\ part.root \in Roots
    BY <1>5, <1>c, <1>d DEF FinishManifest, Rest
  <2>2. /\ \A r \in Roots \ {part.root} : manifest'[r] = manifest[r]
        /\ manifest'[part.root].files = text.files
        /\ manifest'[part.root].rows = text.rows
    <3>1. text \in Manifests
      BY <2>1, <1>t, CallTypes DEF Late
    <3>2. \/ manifest' = [manifest EXCEPT ![part.root] = text]
          \/ manifest' = [manifest EXCEPT ![part.root] =
                            [text EXCEPT !.torn = TRUE]]
      BY <1>5 DEF FinishManifest
    <3>3. /\ [text EXCEPT !.torn = TRUE].files = text.files
          /\ [text EXCEPT !.torn = TRUE].rows = text.rows
      BY <3>1 DEF Manifests
    <3>4. QED
      BY <3>2, <3>3, <1>d, <2>1
  <2>3. \A p : Unlisted(p) => Unlisted(p)'
    BY <2>1, <2>2 DEF Unlisted
  <2>4. \A r \in Roots : Counted(manifest[r])'
    <3>1. Counted(text)
      BY <2>1 DEF RowsInv
    <3>2. QED
      BY <2>1, <2>2, <3>1 DEF RowsInv, Counted
  <2>5. QED
    BY <2>1, <2>3, <2>4 DEF RowsInv
<1>6. ASSUME NEW q \in Ingesters, ingest[q] # Rest, Die(q)
      PROVE  RowsInv'
  <2>1. /\ \A p \in Ingesters \ {q} : ingest'[p] = ingest[p]
        /\ ingest'[q] = Rest /\ ingest'[q].step = "rest"
        /\ UNCHANGED <<named, whole, manifest>>
    BY <1>6, <1>d DEF Die, Rest
  <2>2. \A p : Unlisted(p) => Unlisted(p)'
    BY <2>1 DEF Unlisted
  <2>3. QED
    BY <2>1, <2>2 DEF RowsInv
<1>7. CASE UNCHANGED ingestVars
  BY <1>7 DEF ingestVars, RowsInv, Unlisted
<1>8. QED
  BY <1>1, <1>2, <1>3, <1>4, <1>5, <1>6, <1>7 DEF IngestNext, IngestStep

LEMMA RowsInit == IngestInit => RowsInv
<1> SUFFICES ASSUME IngestInit PROVE RowsInv
  OBVIOUS
<1>1. /\ \A r \in Roots : manifest[r] = Empty
      /\ \A q \in Ingesters : ingest[q] = Rest /\ ingest[q].step = "rest"
      /\ whole = {}
  BY DEF IngestInit, Rest
<1>2. Counted(Empty)
  <2>1. Empty.files = {} /\ \A d \in Datasets : Empty.rows[d] = 0
    BY DEF Empty
  <2>2. \A d : {part \in {} : part.dataset = d} = {}
    OBVIOUS
  <2>3. \A d : RowsOf({}, d) = 0
    BY <2>2, SumEmpty DEF RowsOf
  <2>4. QED
    BY <2>1, <2>3, FS_EmptySet DEF Counted
<1>3. QED
  BY <1>1, <1>2 DEF RowsInv

\* However many processes ingest, overlap and die, the rows a manifest counts
\* are those of the partitions it lists (pipeline.py, _append_partition).
THEOREM RowsMatch == IngestSpec => []RowsMatchFiles
<1>1. RowsInv => RowsMatchFiles
  BY DEF RowsInv, Counted, RowsMatchFiles
<1>2. QED
  BY <1>1, RowsInit, RowsStep, Invariant, PTL DEF IngestSpec

\* Ingestion implements the append-only log: no step takes a complete
\* partition away, and only a complete one is acknowledged.
THEOREM IngestRefinesLog == IngestSpec => LogRefined
<1>1. IngestInit => Log!LogInit
  BY DEF IngestInit, Log!LogInit
<1>2. IngestInv /\ [IngestNext]_ingestVars
        => [Log!LogNext]_<<whole, acked>>
  <2> SUFFICES ASSUME IngestInv, [IngestNext]_ingestVars
               PROVE  Log!LogNext \/ UNCHANGED <<whole, acked>>
    OBVIOUS
  <2>t. IngestTypeOK
    BY DEF IngestInv
  <2>1. ASSUME NEW q \in Ingesters, FinishPartition(q)
        PROVE  Log!LogNext
    <3>1. ingest[q].part \in Partitions
      BY <2>1, <2>t, CallTypes DEF FinishPartition, Early
    <3>2. Log!Append(ingest[q].part)
      BY <2>1 DEF FinishPartition, Log!Append
    <3> QED BY <3>1, <3>2 DEF Log!LogNext
  <2>2. ASSUME NEW q \in Ingesters, FinishManifest(q)
        PROVE  Log!LogNext
    <3>1. ingest[q].part \in Partitions
      BY <2>2, <2>t, CallTypes DEF FinishManifest, Late
    <3>2. ingest[q].part \in whole
      BY <2>2 DEF FinishManifest, IngestInv, WrittenIsWhole
    <3>3. Log!Acknowledge(ingest[q].part)
      BY <2>2, <3>2 DEF FinishManifest, Log!Acknowledge
    <3> QED BY <3>1, <3>3 DEF Log!LogNext
  <2>3. ASSUME NEW q \in Ingesters,
               \/ \E part \in Partitions : OpenPartition(q, part)
               \/ ReadManifest(q) \/ OpenManifest(q) \/ Die(q)
        PROVE  UNCHANGED <<whole, acked>>
    BY <2>3 DEF OpenPartition, ReadManifest, OpenManifest, Die
  <2>4. CASE UNCHANGED ingestVars
    BY <2>4 DEF ingestVars
  <2> QED BY <2>1, <2>2, <2>3, <2>4 DEF IngestNext, IngestStep
<1> QED
  BY <1>1, <1>2, Invariant, PTL DEF IngestSpec, LogRefined, Log!LogSpec

(***************************************************************************)
(* The composition: configuring, persisting and restarting take no step of *)
(* ingestion but its own.                                                  *)
(***************************************************************************)
\* Every process has overrides.
OverridesOfAll == overrides = [p \in Processes |-> overrides[p]]

LEMMA DieAtRest ==
  ASSUME NEW q \in Ingesters, ingest \in [Ingesters -> {Rest} \cup Early
                                                         \cup Late],
         ingest[q] = Rest, Die(q)
  PROVE  UNCHANGED ingestVars
BY DEF Die, Rest, ingestVars

\* A step of the composition is a step of ingestion or leaves it alone.
LEMMA StepIsIngest ==
  IngestTypeOK /\ [Next]_vars => [IngestNext]_ingestVars
<1> SUFFICES ASSUME IngestTypeOK, [Next]_vars
             PROVE  [IngestNext]_ingestVars
  OBVIOUS
<1>1. CASE UNCHANGED vars
  BY <1>1 DEF vars
<1>2. ASSUME NEW p \in Processes, NEW part \in Partitions, IngestTool(p, part)
      PROVE  IngestNext
  BY <1>2, StoresAssumption DEF IngestTool, IngestNext
<1>3. ASSUME NEW p \in Processes, IngestStep(p)
      PROVE  IngestNext
  BY <1>3, StoresAssumption DEF IngestNext
<1>4. ASSUME NEW p \in Processes, Die(p)
      PROVE  [IngestNext]_ingestVars
  <2>1. CASE ingest[p] = Rest
    BY <1>4, <2>1, DieAtRest, StoresAssumption DEF IngestTypeOK
  <2>2. CASE ingest[p] # Rest
    BY <1>4, <2>2, StoresAssumption DEF IngestNext
  <2> QED BY <2>1, <2>2
<1>5. CASE UNCHANGED ingestVars
  BY <1>5
<1> QED BY <1>1, <1>2, <1>3, <1>4, <1>5 DEF Next

\* Server processes that configure, persist, ingest, die and restart carry
\* out ingestion as Ingest has it.
THEOREM StoresIngest == Spec => IngestSpec
<1>1. Init => IngestInit
  BY DEF Init
<1>2. IngestInit => IngestTypeOK
  BY InvInit DEF IngestInv
<1>3. IngestTypeOK /\ [Next]_vars => IngestTypeOK'
  BY StepIsIngest, TypeStep
<1> QED BY <1>1, <1>2, <1>3, StepIsIngest, PTL DEF Spec, IngestSpec

\* In the composition too, a manifest lists only complete partitions.
THEOREM StoresListWhole == Spec => []ListedAreWhole
BY StoresIngest, OnlyWholeListed, PTL

\* In the composition too, what was acknowledged on a root without overlap
\* or death stays listed.
THEOREM StoresLoseNothing == Spec => []NothingLostAlone
BY StoresIngest, NothingLost, PTL

\* In the composition too, a manifest counts the rows of what it lists.
THEOREM StoresCountRows == Spec => []RowsMatchFiles
BY StoresIngest, RowsMatch, PTL

\* The composition implements the append-only log of partitions.
THEOREM StoresRefineLog == Spec => LogRefined
BY StoresIngest, IngestRefinesLog, PTL

LEMMA OverridesStep == OverridesOfAll /\ [Next]_vars => OverridesOfAll'
<1> SUFFICES ASSUME OverridesOfAll, [Next]_vars PROVE OverridesOfAll'
  OBVIOUS
<1>1. ASSUME NEW p \in Processes, NEW change \in Changes,
             NEW clear \in BOOLEAN, StoreConfigure(p, change, clear)
      PROVE  OverridesOfAll'
  BY <1>1 DEF StoreConfigure, OverridesOfAll
<1>2. ASSUME NEW p \in Processes, Start(p)
      PROVE  OverridesOfAll'
  BY <1>2 DEF Start, OverridesOfAll
<1>3. CASE UNCHANGED overrides
  BY <1>3 DEF OverridesOfAll
<1> QED BY <1>1, <1>2, <1>3 DEF Next, vars, configVars

\* For any processes, environments and changes: a refused store_configure
\* changes no override, though a refused flag may clear them all
\* (server.py, store_configure; storage.py, set_storage_override).
THEOREM Refusals == Spec => RefusalIsAtomic
<1>1. Init => OverridesOfAll
  BY DEF Init, ConfigInit, OverridesOfAll
<1>2. ASSUME OverridesOfAll, [Next]_vars, NEW p \in Processes
      PROVE  \/ overrides'[p] \in {overrides[p], NoOverride}
             \/ \E change \in Changes :
                  /\ ~BadStore(change) /\ ~BadHive(change)
                  /\ overrides'[p] \in {Over(change, overrides[p]),
                                        Over(change, NoOverride)}
  <2>1. ASSUME NEW q \in Processes, NEW change \in Changes,
               NEW clear \in BOOLEAN, StoreConfigure(q, change, clear)
        PROVE  \/ overrides'[p] \in {overrides[p], NoOverride}
               \/ /\ ~BadStore(change) /\ ~BadHive(change)
                  /\ overrides'[p] \in {Over(change, overrides[p]),
                                        Over(change, NoOverride)}
    <3>1. CASE p # q
      BY <1>2, <2>1, <3>1 DEF StoreConfigure, OverridesOfAll
    <3>2. CASE p = q
      <4>1. overrides'[p] =
              IF BadStore(change) THEN overrides[p]
              ELSE SetStorageOverride(IF clear THEN NoOverride
                                      ELSE overrides[p], change)
        BY <1>2, <2>1, <3>2 DEF StoreConfigure, OverridesOfAll
      <4> QED BY <4>1 DEF SetStorageOverride
    <3> QED BY <3>1, <3>2
  <2>2. ASSUME NEW q \in Processes, Start(q)
        PROVE  overrides'[p] \in {overrides[p], NoOverride}
    BY <1>2, <2>2 DEF Start, OverridesOfAll
  <2>3. CASE UNCHANGED overrides
    BY <2>3
  <2> QED BY <1>2, <2>1, <2>2, <2>3 DEF Next, vars, configVars
<1>3. OverridesOfAll /\ [Next]_vars =>
        [\A p \in Processes :
           overrides'[p] \in {overrides[p], NoOverride}
             \/ \E change \in Changes :
                  /\ ~BadStore(change) /\ ~BadHive(change)
                  /\ overrides'[p] \in {Over(change, overrides[p]),
                                        Over(change, NoOverride)}]_vars
  BY <1>2
<1> QED
  BY <1>1, <1>3, OverridesStep, PTL DEF Spec, RefusalIsAtomic

(***************************************************************************)
(* Configurations.                                                         *)
(***************************************************************************)
\* What an override may hold, and what every process is configured with.
GoodOverride(o) ==
  /\ "store" \in DOMAIN o => o["store"] \in AllowedStores
  /\ "hive_partitioning" \in DOMAIN o => o["hive_partitioning"] \in Booleans
  /\ "partition_glob" \in DOMAIN o => o["partition_glob"] \in Globs
ConfigInv ==
  /\ environment \in [Processes -> Environments]
  /\ OverridesOfAll
  /\ \A p \in Processes : GoodOverride(overrides[p])

LEMMA NothingOverridden == GoodOverride(NoOverride)
<1>1. DOMAIN NoOverride = {}
  BY DEF NoOverride
<1>2. QED
  BY <1>1 DEF GoodOverride

LEMMA OverrideKept ==
  ASSUME NEW change \in Changes, ~BadStore(change),
         NEW kept, GoodOverride(kept)
  PROVE  GoodOverride(SetStorageOverride(kept, change))
<1>1. CASE BadHive(change)
  BY <1>1 DEF SetStorageOverride
<1>2. CASE ~BadHive(change)
  <2> DEFINE new == Over(change, kept)
  <2>1. /\ DOMAIN new = DOMAIN change \cup DOMAIN kept
        /\ \A f \in DOMAIN new :
             new[f] = IF f \in DOMAIN change THEN change[f] ELSE kept[f]
    BY DEF Over
  <2>2. GoodOverride(change)
    BY <1>2, EnvironmentAssumption DEF GoodOverride, BadStore, BadHive
  <2> HIDE DEF new
  <2>3. GoodOverride(new)
    BY <2>1, <2>2 DEF GoodOverride
  <2>4. QED
    BY <1>2, <2>3 DEF SetStorageOverride, new
<1>3. QED
  BY <1>1, <1>2

LEMMA ConfigStep == ConfigInv /\ [Next]_vars => ConfigInv'
<1> SUFFICES ASSUME ConfigInv, [Next]_vars PROVE ConfigInv'
  OBVIOUS
<1>1. OverridesOfAll'
  BY OverridesStep DEF ConfigInv
<1>2. ASSUME NEW p \in Processes, NEW change \in Changes,
             NEW clear \in BOOLEAN, StoreConfigure(p, change, clear)
      PROVE  ConfigInv'
  <2>1. GoodOverride(IF clear THEN NoOverride ELSE overrides[p])
    BY NothingOverridden DEF ConfigInv
  <2>2. GoodOverride(overrides'[p])
    <3>1. overrides'[p] =
            IF BadStore(change) THEN overrides[p]
            ELSE SetStorageOverride(IF clear THEN NoOverride
                                    ELSE overrides[p], change)
      BY <1>2 DEF StoreConfigure, ConfigInv, OverridesOfAll
    <3>2. CASE BadStore(change)
      BY <3>1, <3>2 DEF ConfigInv
    <3>3. CASE ~BadStore(change)
      BY <2>1, <3>1, <3>3, OverrideKept
    <3>4. QED
      BY <3>2, <3>3
  <2>3. /\ \A q \in Processes \ {p} : overrides'[q] = overrides[q]
        /\ UNCHANGED environment
    BY <1>2 DEF StoreConfigure, ConfigInv, OverridesOfAll
  <2>4. QED
    BY <1>1, <2>2, <2>3 DEF ConfigInv
<1>3. ASSUME NEW p \in Processes, Start(p)
      PROVE  ConfigInv'
  <2>1. /\ overrides'[p] = NoOverride
        /\ \A q \in Processes \ {p} : overrides'[q] = overrides[q]
        /\ environment' \in [Processes -> Environments]
    BY <1>3 DEF Start, ConfigInv, OverridesOfAll
  <2>2. QED
    BY <1>1, <2>1, NothingOverridden DEF ConfigInv
<1>4. CASE UNCHANGED configVars
  BY <1>4 DEF configVars, ConfigInv, OverridesOfAll
<1>5. QED
  BY <1>2, <1>3, <1>4 DEF Next, vars

LEMMA ConfigInvariant == Spec => []ConfigInv
<1>1. Init => ConfigInv
  <2> SUFFICES ASSUME Init PROVE ConfigInv
    OBVIOUS
  <2>1. /\ environment \in [Processes -> Environments]
        /\ overrides = [p \in Processes |-> NoOverride]
    BY DEF Init, ConfigInit
  <2>2. QED
    BY <2>1, NothingOverridden DEF ConfigInv, OverridesOfAll
<1>2. QED
  BY <1>1, ConfigStep, PTL DEF Spec

\* What a process is configured with.
LEMMA ConfigTypes ==
  ASSUME ConfigInv, NEW p \in Processes
  PROVE  /\ GetStorageConfig(p).store \in AllowedStores
         /\ GetStorageConfig(p).hive_partitioning \in Booleans \cup {""}
         /\ Layout(p) \in {"flat", "directory", "nested"}
<1> DEFINE o == overrides[p]
           base == BuildConfig(environment[p])
           cfg == GetStorageConfig(p)
<1>1. /\ DOMAIN base = {"store", "root", "bucket", "default_path",
                        "partition_glob", "hive_partitioning"}
      /\ base["store"] = environment[p].store
      /\ base["hive_partitioning"] = environment[p].hive
      /\ base["partition_glob"] = environment[p].glob
  BY DEF BuildConfig
<1>2. environment[p] \in Environments /\ GoodOverride(o)
  BY DEF ConfigInv
<1> HIDE DEF base, o
<1>3. \A f \in DOMAIN base : cfg[f] = IF f \in DOMAIN o THEN o[f] ELSE base[f]
  BY NothingOverridden DEF GetStorageConfig, Over, NoOverride, o, base
<1> HIDE DEF cfg
<1>4. /\ cfg["store"] \in AllowedStores
      /\ cfg["hive_partitioning"] \in Booleans \cup {""}
      /\ cfg["partition_glob"] \in Globs
  BY <1>1, <1>2, <1>3, EnvironmentAssumption DEF GoodOverride
<1>5. Layout(p) = IF cfg["partition_glob"] = "" THEN "flat"
                  ELSE cfg["partition_glob"]
  BY DEF Layout, cfg
<1>6. QED
  BY <1>4, <1>5 DEF Globs, cfg

(***************************************************************************)
(* Persisted batches.  What the manifest will say is true is built up step *)
(* by step: the tables a call has behind it are whole and of its batch as  *)
(* long as nobody else writes at its location, and the last step only      *)
(* turns what the call knows into what the manifest says.                  *)
(***************************************************************************)
Wrote(p, t) ==
  LET target == WriteTarget(p, t, writing[p].root)
  IN /\ target \in DOMAIN tables
     /\ tables[target] = [batch |-> writing[p].batch, torn |-> FALSE]

\* A call in progress: the location is the one its process is configured for.
Calls(at, root) ==
  [step : {"next", "open", "listing"}, batch : Batches, at : {at},
   root : {root}, rows : SUBSET Tables, left : SUBSET Tables]
CallOk(p) ==
  LET w == writing[p]
  IN /\ w \in Calls(w.at, w.root)
     /\ w.at = LocationFor(p, w.root)
     /\ w.left \subseteq w.rows
     /\ w.step = "open" => ~w.at.object /\ w.left # {}
     /\ w.step = "listing" => ~w.at.object /\ w.left = {}

\* What a call that is alone at its location has done so far.
Progress(p) ==
  LET w == writing[p]
  IN /\ ~w.at.object => \A t \in w.rows \ w.left : Wrote(p, t)
     /\ w.step = "open" => /\ TargetOf(p) \in DOMAIN tables
                           /\ tables[TargetOf(p)].batch = w.batch
     /\ w.step = "listing" => /\ w.at \in DOMAIN listing
                              /\ listing[w.at].batch = w.batch

\* The files and manifests there are.
Target(t) == t = [at |-> t.at, table |-> t.table, file |-> t.file]
               /\ t.file \in {"table", "part"}
Files ==
  /\ \A t \in DOMAIN tables : Target(t) /\ tables[t].batch \in Batches
  /\ \A l \in DOMAIN listing :
       ~l.object /\ \A t \in listing[l].targets : t.at = l

Described(at) ==
  /\ ~listing[at].torn
  /\ \A t \in listing[at].targets :
       /\ t \in DOMAIN tables
       /\ tables[t] = [batch |-> listing[at].batch, torn |-> FALSE]

Busy(p) == writing[p] # NoWrite
StoreInv ==
  /\ writing = [p \in Processes |-> writing[p]]
  /\ \A p \in Processes : Busy(p) => CallOk(p)
  /\ \A p, q \in Processes :
       Busy(p) /\ Busy(q) /\ writing[p].at = writing[q].at
         /\ writing[p].at \notin mixed => p = q
  /\ \A p \in Processes : Busy(p) /\ writing[p].at \notin mixed => Progress(p)
  /\ Files
  /\ \A at \in DOMAIN listing : at \notin mixed /\ Quiet(at) => Described(at)

\* A target is at the location of its root, one to a table.
LEMMA Targets ==
  ASSUME NEW p, NEW table, NEW root
  PROVE  /\ WriteTarget(p, table, root).at = LocationFor(p, root)
         /\ WriteTarget(p, table, root).table = table
         /\ Target(WriteTarget(p, table, root))
<1> DEFINE at == LocationFor(p, root)
           flat == Layout(p) = "flat"
<1>1. WriteTarget(p, table, root) =
        [at |-> at, table |-> table, file |-> IF flat THEN "table" ELSE "part"]
  BY DEF WriteTarget
<1> HIDE DEF at, flat
<1>2. QED
  BY <1>1 DEF Target, at

LEMMA SameConfig ==
  ASSUME NEW p, environment'[p] = environment[p], overrides'[p] = overrides[p]
  PROVE  /\ \A root : LocationFor(p, root)' = LocationFor(p, root)
         /\ \A table, root :
              WriteTarget(p, table, root)' = WriteTarget(p, table, root)
<1>1. GetStorageConfig(p)' = GetStorageConfig(p)
  BY DEF GetStorageConfig, BuildConfig
<1>2. \A root : LocationFor(p, root)' = LocationFor(p, root)
  BY <1>1 DEF LocationFor, BaseLocation, IsObjectStore, ObjectScheme,
              EffectiveBucket, LocalRoot
<1>3. Layout(p)' = Layout(p)
  BY <1>1 DEF Layout
<1>4. QED
  BY <1>2, <1>3 DEF WriteTarget

\* The calls and the files that are not where a step works.
Untouched(p, at) ==
  /\ \A q \in Processes \ {p} : /\ writing'[q] = writing[q]
                                /\ environment'[q] = environment[q]
                                /\ overrides'[q] = overrides[q]
  /\ writing' = [q \in Processes |-> writing'[q]]
  /\ mixed \subseteq mixed'
  /\ \A t : t.at # at => /\ t \in DOMAIN tables' <=> t \in DOMAIN tables
                         /\ t \in DOMAIN tables => tables'[t] = tables[t]
  /\ \A l : l # at => /\ l \in DOMAIN listing' <=> l \in DOMAIN listing
                      /\ l \in DOMAIN listing => listing'[l] = listing[l]

LEMMA Others ==
  ASSUME StoreInv, NEW p \in Processes, NEW at, Untouched(p, at),
         NEW q \in Processes \ {p}, Busy(q)
  PROVE  /\ CallOk(q)'
         /\ writing[q].at # at /\ writing[q].at \notin mixed => Progress(q)'
<1>1. /\ \A root : LocationFor(q, root)' = LocationFor(q, root)
      /\ \A table, root :
           WriteTarget(q, table, root)' = WriteTarget(q, table, root)
      /\ writing'[q] = writing[q]
  BY SameConfig DEF Untouched
<1>2. CallOk(q)
  BY DEF StoreInv
<1>3. CallOk(q)'
  BY <1>1, <1>2 DEF CallOk
<1>4. ASSUME writing[q].at # at, writing[q].at \notin mixed
      PROVE  Progress(q)'
  <2>1. Progress(q) /\ writing[q].at = LocationFor(q, writing[q].root)
    BY <1>2, <1>4 DEF StoreInv, CallOk
  <2>2. \A t : WriteTarget(q, t, writing[q].root).at # at
    BY <1>4, <2>1, Targets
  <2>3. ASSUME NEW t, Wrote(q, t) PROVE Wrote(q, t)'
    BY <1>1, <2>2, <2>3 DEF Wrote, Untouched
  <2>4. TargetOf(q)' = TargetOf(q) /\ TargetOf(q).at # at
    BY <1>1, <2>2 DEF TargetOf, NextTable
  <2>5. QED
    BY <1>1, <1>4, <2>1, <2>3, <2>4 DEF Progress, Untouched
<1>5. QED
  BY <1>3, <1>4

LEMMA Elsewhere ==
  ASSUME StoreInv, NEW p \in Processes, NEW at, Untouched(p, at),
         NEW l \in DOMAIN listing', l # at, l \notin mixed', Quiet(l)',
         Busy(p) => writing[p].at = at
  PROVE  Described(l)'
<1>1. l \in DOMAIN listing /\ l \notin mixed /\ listing'[l] = listing[l]
  BY DEF Untouched
<1>2. Quiet(l)
  BY DEF Quiet, Untouched, Busy
<1>3. /\ Described(l) /\ \A t \in listing[l].targets : t.at = l
  BY <1>1, <1>2 DEF StoreInv, Files
<1>4. ASSUME NEW t \in listing[l].targets
      PROVE  /\ t \in DOMAIN tables'
             /\ tables'[t] = [batch |-> listing[l].batch, torn |-> FALSE]
  <2>1. t \in DOMAIN tables /\ t.at # at
    BY <1>3 DEF Described
  <2>2. tables'[t] = tables[t] /\ t \in DOMAIN tables'
    BY <2>1 DEF Untouched
  <2>3. QED
    BY <1>3, <2>2 DEF Described
<1>5. ~listing'[l].torn
  BY <1>1, <1>3 DEF Described
<1>6. QED
  BY <1>1, <1>4, <1>5 DEF Described

\* A step of one call keeps the invariant when it does so where it works.
LEMMA StepAt ==
  ASSUME StoreInv, NEW p \in Processes, NEW at, Untouched(p, at),
         Busy(p) => writing[p].at = at,
         Busy(p)' => CallOk(p)' /\ writing'[p].at = at,
         at \notin mixed' => /\ Busy(p)' => Progress(p)'
                             /\ \A q \in Processes \ {p} :
                                  Busy(q) => writing[q].at # at,
         Files',
         at \in DOMAIN listing' /\ at \notin mixed' /\ Quiet(at)'
           => Described(at)'
  PROVE  StoreInv'
<1>1. /\ writing' = [q \in Processes |-> writing'[q]]
      /\ \A q \in Processes \ {p} : /\ writing'[q] = writing[q]
                                    /\ Busy(q)' <=> Busy(q)
      /\ mixed \subseteq mixed'
  BY DEF Untouched, Busy
<1>2. ASSUME NEW q \in Processes, Busy(q)'
      PROVE  /\ CallOk(q)'
             /\ writing'[q].at \notin mixed' => Progress(q)'
  <2>1. CASE q = p
    BY <1>2, <2>1
  <2>2. CASE q # p
    <3>1. Busy(q) /\ writing'[q].at = writing[q].at
      BY <1>1, <1>2, <2>2
    <3>2. /\ CallOk(q)'
          /\ writing[q].at # at /\ writing[q].at \notin mixed => Progress(q)'
      BY <2>2, <3>1, Others
    <3>3. writing[q].at \notin mixed' => writing[q].at # at
      BY <2>2, <3>1
    <3>4. QED
      BY <1>1, <3>1, <3>2, <3>3
  <2>3. QED
    BY <2>1, <2>2
<1>3. ASSUME NEW q \in Processes, NEW r \in Processes, Busy(q)', Busy(r)',
             writing'[q].at = writing'[r].at, writing'[q].at \notin mixed'
      PROVE  q = r
  <2>1. CASE q # p /\ r # p
    BY <1>1, <1>3, <2>1 DEF StoreInv
  <2>2. CASE q = p \/ r = p
    BY <1>1, <1>3, <2>2
  <2>3. QED
    BY <2>1, <2>2
<1>4. ASSUME NEW l \in DOMAIN listing', l \notin mixed', Quiet(l)'
      PROVE  Described(l)'
  BY <1>4, Elsewhere
<1>5. QED
  BY <1>1, <1>2, <1>3, <1>4 DEF StoreInv

\* A step that neither writes nor reconfigures a process in a call.
LEMMA StepIdle ==
  ASSUME StoreInv, UNCHANGED storeVars,
         \A q \in Processes : Busy(q) => /\ environment'[q] = environment[q]
                                         /\ overrides'[q] = overrides[q]
  PROVE  StoreInv'
<1>1. UNCHANGED <<tables, listing, writing, mixed>>
  BY DEF storeVars
<1>2. ASSUME NEW q \in Processes, Busy(q)
      PROVE  /\ CallOk(q)'
             /\ writing[q].at \notin mixed => Progress(q)'
  <2>1. /\ \A root : LocationFor(q, root)' = LocationFor(q, root)
        /\ \A table, root :
             WriteTarget(q, table, root)' = WriteTarget(q, table, root)
    BY <1>2, SameConfig
  <2>2. CallOk(q)'
    BY <1>1, <1>2, <2>1 DEF StoreInv, CallOk
  <2>3. ASSUME writing[q].at \notin mixed PROVE Progress(q)'
    <3>1. Progress(q)
      BY <1>2, <2>3 DEF StoreInv
    <3>2. \A t : Wrote(q, t) => Wrote(q, t)'
      BY <1>1, <2>1 DEF Wrote
    <3>3. TargetOf(q)' = TargetOf(q)
      BY <1>1, <2>1 DEF TargetOf, NextTable
    <3>4. QED
      BY <1>1, <3>1, <3>2, <3>3 DEF Progress
  <2>4. QED
    BY <2>2, <2>3
<1>3. Files'
  BY <1>1 DEF Files, StoreInv
<1>4. \A at : /\ Quiet(at)' <=> Quiet(at)
              /\ Described(at)' <=> Described(at)
  BY <1>1 DEF Quiet, Described
<1>5. QED
  BY <1>1, <1>2, <1>3, <1>4 DEF StoreInv, Busy

\* Where a call works.
LEMMA AtWork ==
  ASSUME StoreInv, NEW p \in Processes, Busy(p)
  PROVE  LET w == writing[p]
         IN /\ CallOk(p) /\ w \in Calls(w.at, w.root)
            /\ w.left \subseteq w.rows /\ w.rows \subseteq Tables
            /\ w.batch \in Batches
            /\ w.step \in {"next", "open", "listing"}
            /\ ManifestPlace(p) = w.at
            /\ \A t : /\ WriteTarget(p, t, w.root).at = w.at
                      /\ Target(WriteTarget(p, t, w.root))
            /\ TargetOf(p) = WriteTarget(p, NextTable(p), w.root)
            /\ w.left # {} => NextTable(p) \in w.left
            /\ \A t \in w.rows : t # NextTable(p) =>
                 WriteTarget(p, t, w.root) # TargetOf(p)
            /\ w.at \notin mixed =>
                 \A q \in Processes \ {p} : Busy(q) => writing[q].at # w.at
<1> DEFINE w == writing[p]
<1>1. CallOk(p)
  BY DEF StoreInv
<1>2. /\ w \in Calls(w.at, w.root) /\ w.left \subseteq w.rows
      /\ w.at = LocationFor(p, w.root)
  BY <1>1 DEF CallOk
<1>3. /\ w.rows \subseteq Tables /\ w.batch \in Batches
      /\ w.step \in {"next", "open", "listing"}
  BY <1>2 DEF Calls
<1>4. ManifestPlace(p) = w.at
  BY <1>2 DEF ManifestPlace
<1>5. TargetOf(p) = WriteTarget(p, NextTable(p), w.root)
  BY DEF TargetOf
<1>6. w.left # {} => NextTable(p) \in w.left
  BY <1>2, <1>3 DEF NextTable, Tables
<1>7. \A t : /\ WriteTarget(p, t, w.root).at = w.at
             /\ WriteTarget(p, t, w.root).table = t
             /\ Target(WriteTarget(p, t, w.root))
  BY <1>2, Targets
<1>8. \A t : t # NextTable(p) => WriteTarget(p, t, w.root) # TargetOf(p)
  BY <1>5, <1>7
<1>9. w.at \notin mixed =>
        \A q \in Processes \ {p} : Busy(q) => writing[q].at # w.at
  BY DEF StoreInv
<1>10. QED
  BY <1>1, <1>2, <1>3, <1>4, <1>5, <1>6, <1>7, <1>8, <1>9

LEMMA ConfigFixed ==
  ASSUME UNCHANGED configVars
  PROVE  \A p : /\ environment'[p] = environment[p]
                /\ overrides'[p] = overrides[p]
                /\ \A root : LocationFor(p, root)' = LocationFor(p, root)
                /\ \A table, root :
                     WriteTarget(p, table, root)' = WriteTarget(p, table, root)
BY SameConfig DEF configVars

LEMMA WriteStep ==
  ASSUME StoreInv, UNCHANGED configVars, NEW p \in Processes,
         NEW caller \in Callers, NEW batch \in Batches,
         WriteRiskStore(p, caller, batch)
  PROVE  StoreInv'
<1>0. PICK at : at = LocationFor(p, caller.root)
  OBVIOUS
<1> DEFINE new == [step |-> "next", batch |-> batch, at |-> at,
                   root |-> caller.root, rows |-> caller.rows,
                   left |-> caller.rows]
<1>1. /\ writing[p] = NoWrite /\ writing' = [writing EXCEPT ![p] = new]
      /\ mixed' = IF \E q \in Processes :
                       writing[q] # NoWrite /\ writing[q].at = at
                  THEN mixed \cup {at} ELSE mixed
      /\ UNCHANGED <<tables, listing>>
  BY <1>0 DEF WriteRiskStore
<1>2. writing = [q \in Processes |-> writing[q]]
  BY DEF StoreInv
<1>3. /\ writing'[p] = new
      /\ \A q \in Processes \ {p} : writing'[q] = writing[q]
      /\ writing' = [q \in Processes |-> writing'[q]]
  BY <1>1, <1>2
<1>4. Untouched(p, at)
  BY <1>1, <1>3, ConfigFixed DEF Untouched
<1>5. caller.rows \subseteq Tables
  <2>1. PICK r, rows : caller = [rows |-> rows, root |-> r]
                         /\ rows \in {Tables, {"risk_wide"}}
    BY DEF Callers
  <2>2. QED
    BY <2>1 DEF Tables
<1>6. /\ new.step = "next" /\ new.at = at /\ new.root = caller.root
      /\ new.rows = caller.rows /\ new.left = caller.rows
      /\ new \in Calls(at, caller.root)
  BY <1>5 DEF Calls
<1>7. at = LocationFor(p, caller.root)'
  BY <1>0, ConfigFixed
<1> HIDE DEF new
<1>8. CallOk(p)'
  BY <1>3, <1>6, <1>7 DEF CallOk
<1>9. Progress(p)'
  BY <1>3, <1>6 DEF Progress
<1>10. /\ Files' /\ ~Busy(p)
       /\ Busy(p)' /\ writing'[p].at = at
  <2>1. NoWrite.step = "none"
    BY DEF NoWrite
  <2>2. QED
    BY <1>1, <1>3, <1>6, <2>1 DEF Files, StoreInv, Busy
<1>11. ~Quiet(at)'
  BY <1>10 DEF Quiet, Busy
<1>12. at \notin mixed' =>
         \A q \in Processes \ {p} : Busy(q) => writing[q].at # at
  BY <1>1 DEF Busy
<1>13. QED
  BY <1>4, <1>8, <1>9, <1>10, <1>11, <1>12, StepAt

LEMMA TableStep ==
  ASSUME StoreInv, UNCHANGED configVars, NEW p \in Processes,
         OpenTable(p) \/ FinishTable(p)
  PROVE  StoreInv'
<1>0. PICK w, T, at, root : /\ w = writing[p] /\ T = TargetOf(p)
                            /\ at = w.at /\ root = w.root
  OBVIOUS
<1>1. /\ Busy(p) /\ w.left # {} /\ UNCHANGED <<listing, mixed>>
      /\ w.step \in {"next", "open"}
  BY <1>0 DEF OpenTable, FinishTable, Busy, NoWrite
<1>2. /\ CallOk(p) /\ w \in Calls(at, root)
      /\ w.left \subseteq w.rows /\ w.rows \subseteq Tables /\ w.batch \in Batches
      /\ T.at = at /\ Target(T) /\ NextTable(p) \in w.left
      /\ T = WriteTarget(p, NextTable(p), root)
      /\ \A t \in w.rows : t # NextTable(p) => WriteTarget(p, t, root) # T
      /\ at \notin mixed =>
           \A q \in Processes \ {p} : Busy(q) => writing[q].at # at
  <2>1. /\ CallOk(p) /\ writing[p] \in Calls(writing[p].at, writing[p].root)
        /\ writing[p].left \subseteq writing[p].rows
        /\ writing[p].rows \subseteq Tables /\ writing[p].batch \in Batches
        /\ \A t : /\ WriteTarget(p, t, writing[p].root).at = writing[p].at
                  /\ Target(WriteTarget(p, t, writing[p].root))
        /\ TargetOf(p) = WriteTarget(p, NextTable(p), writing[p].root)
        /\ writing[p].left # {} => NextTable(p) \in writing[p].left
        /\ \A t \in writing[p].rows : t # NextTable(p) =>
             WriteTarget(p, t, writing[p].root) # TargetOf(p)
        /\ writing[p].at \notin mixed =>
             \A q \in Processes \ {p} : Busy(q) => writing[q].at # writing[p].at
    BY <1>1, AtWork
  <2>2. QED
    BY <1>0, <1>1, <2>1
<1>3. PICK next : next = NextTable(p)
  OBVIOUS
<1>4. /\ \A t : WriteTarget(p, t, root)' = WriteTarget(p, t, root)
      /\ at = LocationFor(p, root)'
      /\ writing = [q \in Processes |-> writing[q]]
  BY <1>0, <1>2, ConfigFixed DEF CallOk, StoreInv
<1>5. ASSUME NEW file, tables' = With(tables, T, file), file.batch = w.batch,
             NEW v, writing' = [writing EXCEPT ![p] = v],
             v \in Calls(at, root), v.at = at, v.root = root,
             v.rows = w.rows, v.batch = w.batch, v.step \in {"next", "open"},
             v.left \subseteq w.left,
             v.step = "open" => v.left = w.left /\ ~at.object,
             \A t \in v.rows \ v.left : t \in w.rows \ w.left \/ t = next,
             next \notin v.left /\ at \notin mixed /\ ~at.object =>
               file = [batch |-> w.batch, torn |-> FALSE]
      PROVE  StoreInv'
  <2>1. /\ DOMAIN tables' = DOMAIN tables \cup {T} /\ tables'[T] = file
        /\ \A t \in DOMAIN tables : t # T => tables'[t] = tables[t]
    BY <1>5 DEF With
  <2>2. /\ \A q \in Processes \ {p} : writing'[q] = writing[q]
        /\ writing' = [q \in Processes |-> writing'[q]]
        /\ writing'[p] = v
    BY <1>4, <1>5
  <2>3. Untouched(p, at)
    BY <1>1, <1>2, <2>1, <2>2, ConfigFixed DEF Untouched
  <2>4. CallOk(p)'
    BY <1>1, <1>2, <1>4, <1>5, <2>2 DEF CallOk
  <2>5. ASSUME at \notin mixed PROVE Progress(p)'
    <3>1. Progress(p)
      BY <1>0, <1>1, <2>5 DEF StoreInv
    <3>2. ASSUME ~at.object, NEW t \in v.rows \ v.left PROVE Wrote(p, t)'
      <4> DEFINE target == WriteTarget(p, t, root)
      <4>1. target \in DOMAIN tables'
            /\ tables'[target] = [batch |-> w.batch, torn |-> FALSE]
        <5>1. CASE t = next
          <6>1. target = T
            BY <1>2, <1>3, <5>1
          <6>2. file = [batch |-> w.batch, torn |-> FALSE]
            BY <1>5, <2>5, <3>2, <5>1
          <6>3. QED
            BY <2>1, <6>1, <6>2
        <5>2. CASE t # next
          <6>1. t \in w.rows \ w.left
            BY <1>5, <3>2, <5>2
          <6>2. Wrote(p, t)
            BY <1>0, <3>1, <3>2, <6>1 DEF Progress
          <6>3. target # T
            BY <1>2, <1>3, <5>2, <6>1
          <6>4. target \in DOMAIN tables
                /\ tables[target] = [batch |-> w.batch, torn |-> FALSE]
            BY <1>0, <6>2 DEF Wrote
          <6>5. QED
            BY <2>1, <6>3, <6>4
        <5>3. QED
          BY <5>1, <5>2
      <4>2. WriteTarget(p, t, writing[p].root)' = target
        BY <1>4, <1>5, <2>2
      <4>3. QED
        BY <1>5, <2>2, <4>1, <4>2 DEF Wrote
    <3>3. ASSUME v.step = "open"
          PROVE  /\ TargetOf(p)' \in DOMAIN tables'
                 /\ tables'[TargetOf(p)'].batch = v.batch
      <4>1. v.left = w.left
        BY <1>5, <3>3
      <4>2. TargetOf(p)' = T
        BY <1>0, <1>2, <1>4, <1>5, <2>2, <4>1 DEF TargetOf, NextTable
      <4>3. QED
        BY <1>5, <2>1, <4>2
    <3>4. QED
      BY <1>5, <2>2, <3>2, <3>3 DEF Progress
  <2>6. Files'
    BY <1>1, <1>2, <1>5, <2>1 DEF Files, StoreInv
  <2>7. Busy(p)' /\ ~Quiet(at)' /\ writing'[p].at = at
    BY <1>5, <2>2 DEF Busy, Quiet, NoWrite
  <2>8. QED
    BY <1>0, <1>1, <1>2, <2>3, <2>4, <2>5, <2>6, <2>7, StepAt
<1>6. CASE OpenTable(p)
  <2>1. /\ tables' = With(tables, T, [batch |-> w.batch, torn |-> TRUE])
        /\ writing' = [writing EXCEPT ![p].step = "open"]
        /\ ~at.object
    BY <1>0, <1>6 DEF OpenTable
  <2>2. PICK v : v = [w EXCEPT !.step = "open"]
    OBVIOUS
  <2>3. writing' = [writing EXCEPT ![p] = v]
    BY <1>0, <1>4, <2>1, <2>2
  <2>4. /\ v \in Calls(at, root) /\ v.step = "open" /\ v.left = w.left
        /\ v.batch = w.batch /\ v.rows = w.rows /\ v.at = at
        /\ v.root = root
    BY <1>2, <2>2 DEF Calls
  <2>5. QED
    BY <1>2, <1>3, <1>5, <2>1, <2>3, <2>4
<1>7. CASE FinishTable(p)
  <2>1. /\ \E file \in {Written(p), [Written(p) EXCEPT !.torn = FALSE]} :
             tables' = With(tables, T, file)
        /\ writing' = [writing EXCEPT ![p].step = "next",
                                      ![p].left = @ \ {next}]
        /\ w.step = "open" \/ at.object
    BY <1>0, <1>3, <1>7 DEF FinishTable
  <2>2. PICK v : v = [w EXCEPT !.step = "next", !.left = @ \ {next}]
    OBVIOUS
  <2>3. writing' = [writing EXCEPT ![p] = v]
    BY <1>0, <1>4, <2>1, <2>2
  <2>4. /\ v \in Calls(at, root) /\ v.step = "next" /\ v.left = w.left \ {next}
        /\ v.batch = w.batch /\ v.rows = w.rows /\ v.at = at
        /\ v.root = root
    BY <1>2, <2>2 DEF Calls
  <2>5. PICK file \in {Written(p), [Written(p) EXCEPT !.torn = FALSE]} :
          tables' = With(tables, T, file)
    BY <2>1
  <2>6. PICK torn : Written(p) = [batch |-> w.batch, torn |-> torn]
                      /\ torn = (/\ T \in DOMAIN tables /\ ~at.object
                                 /\ tables[T].batch # w.batch)
    BY <1>0 DEF Written
  <2>7. file \in {[batch |-> w.batch, torn |-> torn],
                  [batch |-> w.batch, torn |-> FALSE]}
    BY <2>5, <2>6
  <2>8. ASSUME at \notin mixed, ~at.object
        PROVE  file = [batch |-> w.batch, torn |-> FALSE]
    <3>1. Progress(p)
      BY <1>0, <1>1, <2>8 DEF StoreInv
    <3>2. tables[T].batch = w.batch
      BY <1>0, <2>1, <2>8, <3>1 DEF Progress
    <3>3. torn = FALSE
      BY <2>6, <3>2
    <3>4. QED
      BY <2>7, <3>3
  <2>9. \A t \in w.rows \ v.left : t \in w.rows \ w.left \/ t = next
    BY <2>4
  <2>10. QED
    BY <1>2, <1>3, <1>5, <2>3, <2>4, <2>5, <2>7, <2>8, <2>9
<1>8. QED
  BY <1>6, <1>7

LEMMA ListingStep ==
  ASSUME StoreInv, UNCHANGED configVars, NEW p \in Processes,
         OpenListing(p) \/ FinishListing(p)
  PROVE  StoreInv'
<1>0. PICK w, at, root : /\ w = writing[p] /\ at = w.at /\ root = w.root
  OBVIOUS
<1>1. /\ Busy(p) /\ UNCHANGED <<tables, mixed>> /\ w.left = {} /\ ~at.object
  <2>1. Busy(p) /\ UNCHANGED <<tables, mixed>>
    <3>1. CASE OpenListing(p)
      BY <3>1 DEF OpenListing, Busy, NoWrite
    <3>2. CASE FinishListing(p)
      BY <3>2 DEF FinishListing, Busy, NoWrite
    <3>3. QED
      BY <3>1, <3>2
  <2>2. CallOk(p) /\ ManifestPlace(p) = at
    BY <1>0, <2>1, AtWork
  <2>3. QED
    BY <1>0, <2>1, <2>2 DEF OpenListing, FinishListing, CallOk
<1>2. /\ w \in Calls(at, root) /\ w.rows \subseteq Tables
      /\ ManifestPlace(p) = at /\ CallOk(p)
      /\ \A t : WriteTarget(p, t, root).at = at
      /\ at \notin mixed =>
           \A q \in Processes \ {p} : Busy(q) => writing[q].at # at
  <2>1. /\ CallOk(p) /\ writing[p] \in Calls(writing[p].at, writing[p].root)
        /\ writing[p].rows \subseteq Tables /\ ManifestPlace(p) = writing[p].at
        /\ \A t : WriteTarget(p, t, writing[p].root).at = writing[p].at
        /\ writing[p].at \notin mixed =>
             \A q \in Processes \ {p} : Busy(q) => writing[q].at # writing[p].at
    BY <1>1, AtWork
  <2>2. QED
    BY <1>0, <2>1
<1>3. /\ writing = [q \in Processes |-> writing[q]]
      /\ \A t : WriteTarget(p, t, root)' = WriteTarget(p, t, root)
      /\ at = LocationFor(p, root)'
  <2>1. writing = [q \in Processes |-> writing[q]]
    BY DEF StoreInv
  <2>2. at = LocationFor(p, root)
    BY <1>0, <1>2 DEF CallOk
  <2>3. /\ \A t : WriteTarget(p, t, root)' = WriteTarget(p, t, root)
        /\ LocationFor(p, root)' = LocationFor(p, root)
    BY ConfigFixed
  <2>4. QED
    BY <2>1, <2>2, <2>3
<1>4. ASSUME NEW torn
      PROVE  /\ Manifest(p, torn).batch = w.batch
             /\ Manifest(p, torn).torn = torn
             /\ Manifest(p, torn).targets
                  = {WriteTarget(p, t, root) : t \in w.rows}
  BY <1>0 DEF Manifest
<1>5. ASSUME NEW entry, listing' = With(listing, at, entry),
             \A t \in entry.targets : t.at = at
      PROVE  /\ DOMAIN listing' = DOMAIN listing \cup {at}
             /\ listing'[at] = entry
             /\ \A l \in DOMAIN listing : l # at => listing'[l] = listing[l]
             /\ Files'
  <2>1. /\ DOMAIN listing' = DOMAIN listing \cup {at}
        /\ listing'[at] = entry
        /\ \A l \in DOMAIN listing : l # at => listing'[l] = listing[l]
    BY <1>5 DEF With
  <2>2. Files'
    <3>1. Files
      BY DEF StoreInv
    <3>2. \A t \in DOMAIN tables' : Target(t) /\ tables'[t].batch \in Batches
      BY <1>1, <3>1 DEF Files
    <3>3. ASSUME NEW l \in DOMAIN listing'
          PROVE  ~l.object /\ \A t \in listing'[l].targets : t.at = l
      <4>1. CASE l = at
        BY <1>1, <1>5, <2>1, <4>1
      <4>2. CASE l # at
        BY <2>1, <3>1, <4>2 DEF Files
      <4>3. QED
        BY <4>1, <4>2
    <3>4. QED
      BY <3>2, <3>3 DEF Files
  <2>3. QED
    BY <2>1, <2>2
<1>6. CASE OpenListing(p)
  <2>1. PICK entry : /\ entry = Manifest(p, TRUE)
                     /\ listing' = With(listing, at, entry)
    BY <1>2, <1>6 DEF OpenListing
  <2>2. PICK v : v = [w EXCEPT !.step = "listing"]
    OBVIOUS
  <2>3. writing' = [writing EXCEPT ![p] = v]
    BY <1>0, <1>3, <1>6, <2>2 DEF OpenListing
  <2>4. /\ v \in Calls(at, root) /\ v.step = "listing" /\ v.left = {}
        /\ v.batch = w.batch /\ v.rows = w.rows /\ v.at = at
        /\ v.root = root
    BY <1>1, <1>2, <2>2 DEF Calls
  <2>5. /\ \A q \in Processes \ {p} : writing'[q] = writing[q]
        /\ writing' = [q \in Processes |-> writing'[q]]
        /\ writing'[p] = v
    BY <1>3, <2>3
  <2>6. /\ DOMAIN listing' = DOMAIN listing \cup {at}
        /\ listing'[at] = entry
        /\ \A l \in DOMAIN listing : l # at => listing'[l] = listing[l]
        /\ Files' /\ entry.batch = w.batch
    <3>1. /\ entry.batch = w.batch
          /\ entry.targets = {WriteTarget(p, t, root) : t \in w.rows}
      BY <1>4, <2>1
    <3>2. \A t \in entry.targets : t.at = at
      BY <1>2, <3>1
    <3>3. QED
      BY <1>5, <2>1, <3>1, <3>2
  <2>7. Untouched(p, at)
    BY <1>1, <2>5, <2>6, ConfigFixed DEF Untouched
  <2>8. CallOk(p)'
    BY <1>1, <1>3, <2>4, <2>5 DEF CallOk
  <2>9. ASSUME at \notin mixed PROVE Progress(p)'
    <3>1. Progress(p)
      BY <1>0, <1>1, <2>9 DEF StoreInv
    <3>2. ASSUME NEW t \in v.rows \ v.left PROVE Wrote(p, t)'
      <4>1. Wrote(p, t)
        BY <1>0, <1>1, <2>4, <3>1, <3>2 DEF Progress
      <4>2. WriteTarget(p, t, writing[p].root)'
              = WriteTarget(p, t, writing[p].root)
        BY <1>0, <1>3, <2>4, <2>5
      <4>3. QED
        BY <1>0, <1>1, <2>4, <2>5, <4>1, <4>2 DEF Wrote
    <3>3. QED
      BY <2>4, <2>5, <2>6, <3>2 DEF Progress
  <2>10. Busy(p)' /\ ~Quiet(at)' /\ writing'[p].at = at
    BY <2>4, <2>5 DEF Busy, Quiet, NoWrite
  <2>11. QED
    BY <1>0, <1>1, <1>2, <2>6, <2>7, <2>8, <2>9, <2>10, StepAt
<1>7. CASE FinishListing(p)
  <2>0. PICK torn \in BOOLEAN :
          /\ torn => listing[at].batch # w.batch
          /\ listing' = With(listing, at, Manifest(p, torn))
    BY <1>0, <1>2, <1>7 DEF FinishListing
  <2>1. PICK entry : /\ entry = Manifest(p, torn)
                     /\ listing' = With(listing, at, entry)
    BY <2>0
  <2>2. w.step = "listing" /\ writing' = [writing EXCEPT ![p] = NoWrite]
    BY <1>0, <1>7 DEF FinishListing
  <2>3. /\ \A q \in Processes \ {p} : writing'[q] = writing[q]
        /\ writing' = [q \in Processes |-> writing'[q]]
        /\ ~Busy(p)'
    BY <1>3, <2>2 DEF Busy
  <2>4. /\ DOMAIN listing' = DOMAIN listing \cup {at}
        /\ listing'[at] = entry
        /\ \A l \in DOMAIN listing : l # at => listing'[l] = listing[l]
        /\ Files' /\ entry.batch = w.batch /\ entry.torn = torn
        /\ entry.targets = {WriteTarget(p, t, root) : t \in w.rows}
    <3>1. /\ entry.batch = w.batch /\ entry.torn = torn
          /\ entry.targets = {WriteTarget(p, t, root) : t \in w.rows}
      BY <1>4, <2>1
    <3>2. \A t \in entry.targets : t.at = at
      BY <1>2, <3>1
    <3>3. QED
      BY <1>5, <2>1, <3>1, <3>2
  <2>5. Untouched(p, at)
    BY <1>1, <2>3, <2>4, ConfigFixed DEF Untouched
  <2>6. ASSUME at \notin mixed PROVE Described(at)'
    <3>1. Progress(p)
      BY <1>0, <1>1, <2>6 DEF StoreInv
    <3>2. torn = FALSE
      BY <1>0, <2>0, <2>2, <3>1 DEF Progress
    <3>3. ASSUME NEW t \in w.rows
          PROVE  /\ WriteTarget(p, t, root) \in DOMAIN tables
                 /\ tables[WriteTarget(p, t, root)]
                      = [batch |-> w.batch, torn |-> FALSE]
      BY <1>0, <1>1, <3>1 DEF Progress, Wrote
    <3>4. \A t \in entry.targets :
            /\ t \in DOMAIN tables'
            /\ tables'[t] = [batch |-> entry.batch, torn |-> FALSE]
      BY <1>1, <2>4, <3>3
    <3>5. listing'[at] = entry /\ ~entry.torn
      BY <2>4, <3>2
    <3>6. QED
      BY <3>4, <3>5 DEF Described
  <2>7. QED
    BY <1>0, <1>1, <1>2, <2>3, <2>4, <2>5, <2>6, StepAt
<1>8. QED
  BY <1>6, <1>7

LEMMA LeaveStep ==
  ASSUME StoreInv, NEW p \in Processes, Busy(p),
         UNCHANGED <<tables, listing>>,
         writing' = [writing EXCEPT ![p] = NoWrite],
         \A q \in Processes \ {p} : /\ environment'[q] = environment[q]
                                    /\ overrides'[q] = overrides[q],
         mixed \subseteq mixed',
         writing[p].at.object \/ writing[p].at \in mixed'
  PROVE  StoreInv'
<1>0. PICK at : at = writing[p].at
  OBVIOUS
<1>1. writing = [q \in Processes |-> writing[q]]
  BY DEF StoreInv
<1>2. /\ \A q \in Processes \ {p} : writing'[q] = writing[q]
      /\ writing' = [q \in Processes |-> writing'[q]]
      /\ ~Busy(p)'
  BY <1>1 DEF Busy
<1>3. Untouched(p, at)
  BY <1>2 DEF Untouched
<1>4. Files' /\ (at \in DOMAIN listing' => ~at.object)
  BY DEF Files, StoreInv
<1>5. at \notin mixed =>
        \A q \in Processes \ {p} : Busy(q) => writing[q].at # at
  BY <1>0 DEF StoreInv
<1>6. at \in DOMAIN listing' => at \in mixed'
  BY <1>0, <1>4
<1>7. QED
  BY <1>0, <1>2, <1>3, <1>4, <1>5, <1>6, StepAt

LEMMA StoreInvStep == ConfigInv /\ StoreInv /\ [Next]_vars => StoreInv'
<1> SUFFICES ASSUME ConfigInv, StoreInv, [Next]_vars PROVE StoreInv'
  OBVIOUS
<1>1. ASSUME NEW p \in Processes, Call(p), NEW change \in Changes,
             NEW clear \in BOOLEAN, StoreConfigure(p, change, clear),
             UNCHANGED storeVars
      PROVE  StoreInv'
  <2>1. ~Busy(p)
    BY <1>1 DEF Call, Free, Busy
  <2>2. \A q \in Processes \ {p} : /\ environment'[q] = environment[q]
                                   /\ overrides'[q] = overrides[q]
    BY <1>1 DEF StoreConfigure, ConfigInv, OverridesOfAll
  <2>3. QED
    BY <1>1, <2>1, <2>2, StepIdle
<1>2. ASSUME NEW p \in Processes, NEW caller \in Callers, NEW batch \in Batches,
             WriteRiskStore(p, caller, batch), UNCHANGED configVars
      PROVE  StoreInv'
  BY <1>2, WriteStep
<1>3. ASSUME UNCHANGED <<configVars, storeVars>> PROVE StoreInv'
  BY <1>3, StepIdle DEF configVars
<1>4. ASSUME NEW p \in Processes, StoreStep(p), UNCHANGED configVars
      PROVE  StoreInv'
  <2>1. CASE OpenTable(p) \/ FinishTable(p)
    BY <1>4, <2>1, TableStep
  <2>2. CASE OpenListing(p) \/ FinishListing(p)
    BY <1>4, <2>2, ListingStep
  <2>3. CASE PutDone(p)
    <3>1. /\ Busy(p) /\ UNCHANGED <<tables, listing, mixed>>
          /\ writing' = [writing EXCEPT ![p] = NoWrite]
          /\ ManifestPlace(p).object
      BY <2>3 DEF PutDone, Busy, NoWrite
    <3>2. ManifestPlace(p) = writing[p].at
      BY <3>1, AtWork
    <3>3. QED
      BY <1>4, <3>1, <3>2, LeaveStep, ConfigFixed
  <2>4. QED
    BY <1>4, <2>1, <2>2, <2>3 DEF StoreStep
<1>5. ASSUME NEW p \in Processes, StoreDie(p), Start(p)
      PROVE  StoreInv'
  <2>1. \A q \in Processes \ {p} : /\ environment'[q] = environment[q]
                                   /\ overrides'[q] = overrides[q]
    BY <1>5 DEF Start, ConfigInv, OverridesOfAll
  <2>2. CASE Busy(p)
    BY <1>5, <2>1, <2>2, LeaveStep DEF StoreDie, Busy
  <2>3. CASE ~Busy(p)
    <3>1. writing = [q \in Processes |-> writing[q]] /\ writing[p] = NoWrite
      BY <2>3 DEF StoreInv, Busy
    <3>2. UNCHANGED storeVars
      BY <1>5, <3>1 DEF StoreDie, storeVars
    <3>3. QED
      BY <2>1, <2>3, <3>2, StepIdle
  <2>4. QED
    BY <2>2, <2>3
<1>6. QED
  BY <1>1, <1>2, <1>3, <1>4, <1>5 DEF Next, vars

LEMMA StoreInvInit == Init => StoreInv
<1> SUFFICES ASSUME Init PROVE StoreInv
  OBVIOUS
<1>1. /\ DOMAIN tables = {} /\ DOMAIN listing = {}
      /\ writing = [p \in Processes |-> NoWrite]
  BY DEF Init, StoreInit
<1>2. QED
  BY <1>1 DEF StoreInv, Busy, Files

\* The invariant behind the two properties of the store: a call works where
\* its process is configured to, calls not marked as mixed are alone there,
\* and what such a call has behind it is whole and of its batch (olap.py,
\* write_risk_store).
THEOREM StoreInvariant == Spec => [](ConfigInv /\ StoreInv)
BY StoreInvInit, StoreInvStep, ConfigInvariant, PTL DEF Spec

\* The state of the composition keeps its types: whatever stores, flags and
\* layouts are asked for, every process is configured with ones that exist.
THEOREM StoresTypes == Spec => []TypeOK
<1>1. ConfigInv /\ StoreInv /\ IngestTypeOK => TypeOK
  BY ConfigTypes DEF TypeOK, StoreInv, Files
<1>2. QED
  BY <1>1, StoreInvariant, StoresIngest, TypeCorrect, PTL

\* However many processes persist risk, wherever their configurations say:
\* where no two overlapped and none died, a manifest between writes describes
\* the tables of the batch it names, and all of them are there and readable
\* (olap.py, write_risk_store).
THEOREM ManifestsDescribe == Spec => []ManifestDescribesStore
<1>1. StoreInv => ManifestDescribesStore
  BY DEF StoreInv, ManifestDescribesStore, Described
<1>2. QED
  BY <1>1, StoreInvariant, PTL

\* A process whose layout is that of the last batch written where it is
\* configured to look reads that batch, whoever wrote it (olap.py,
\* resolve_dataset_source against _write_target).
THEOREM ReadersFind == Spec => []ReadersFindTheBatch
<1>1. ConfigInv /\ StoreInv => ReadersFindTheBatch
  <2> SUFFICES ASSUME ConfigInv, StoreInv, NEW p \in Processes,
                      LocationFor(p, "") \in DOMAIN listing,
                      LocationFor(p, "") \notin mixed,
                      Quiet(LocationFor(p, "")),
                      WriteTarget(p, "risk_wide", "")
                        \in listing[LocationFor(p, "")].targets,
                      Layout(p) # "nested"
               PROVE  /\ QueryAnswered(p, "risk_wide", "")
                      /\ {tables[t].batch : t \in FilesRead(p, "risk_wide", "")}
                           = {listing[LocationFor(p, "")].batch}
    BY DEF ReadersFindTheBatch
  <2> DEFINE at == LocationFor(p, "")
             own == WriteTarget(p, "risk_wide", "")
  <2>1. /\ own \in DOMAIN tables
        /\ tables[own] = [batch |-> listing[at].batch, torn |-> FALSE]
    BY DEF StoreInv, Described
  <2>2. FilesRead(p, "risk_wide", "") = {own}
    <3>1. Layout(p) \in {"flat", "directory"}
      BY ConfigTypes
    <3>2. /\ own.at = at /\ own.table = "risk_wide" /\ Target(own)
          /\ own.file = IF Layout(p) = "flat" THEN "table" ELSE "part"
      BY Targets DEF WriteTarget
    <3>3. \A t : Matches(ResolveDatasetSource(p, "risk_wide", ""), t) <=>
                   /\ at = t.at /\ "risk_wide" = t.table
                   /\ Layout(p) = IF t.file = "table" THEN "flat" ELSE "directory"
      BY DEF Matches, ResolveDatasetSource
    <3>4. own \in FilesRead(p, "risk_wide", "")
      BY <2>1, <3>1, <3>2, <3>3 DEF FilesRead
    <3>5. ASSUME NEW t \in FilesRead(p, "risk_wide", "") PROVE t = own
      <4>1. /\ Target(t) /\ at = t.at /\ "risk_wide" = t.table
            /\ Layout(p) = IF t.file = "table" THEN "flat" ELSE "directory"
        BY <3>3, <3>5 DEF FilesRead, StoreInv, Files
      <4>2. t.file = own.file
        BY <3>1, <3>2, <4>1 DEF Target
      <4>3. QED
        BY <3>2, <4>1, <4>2 DEF Target
    <3>6. QED
      BY <3>4, <3>5
  <2> HIDE DEF at, own
  <2>3. tables[own].batch = listing[at].batch /\ tables[own].torn = FALSE
    <3> DEFINE file == tables[own]
               batch == listing[at].batch
    <3>1. file = [batch |-> batch, torn |-> FALSE]
      BY <2>1
    <3> HIDE DEF file, batch
    <3>2. file.batch = batch /\ file.torn = FALSE
      BY <3>1
    <3>3. QED
      BY <3>2 DEF file, batch
  <2>4. QueryAnswered(p, "risk_wide", "")
    BY <2>2, <2>3 DEF QueryAnswered
  <2>5. {tables[t].batch : t \in FilesRead(p, "risk_wide", "")}
          = {tables[own].batch}
    BY <2>2
  <2>6. QED
    BY <2>3, <2>4, <2>5 DEF at
<1>2. QED
  BY <1>1, StoreInvariant, PTL
=============================================================================
