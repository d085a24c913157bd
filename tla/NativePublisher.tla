---------------------------- MODULE NativePublisher ----------------------------
(***************************************************************************)
(* The manifests the publisher writes (publisher.rs) and what the client   *)
(* makes of a manifest (oci.rs parse_autoindex_manifest): two pieces of    *)
(* code that must agree, since a command publishes what the next one loads.*)
(***************************************************************************)
EXTENDS AutoindexPaths, SequencesExt

CONSTANTS Slash,         \* the byte '/'
          MaxFiles,      \* MAX_PUBLICATION_FILES
          LayerBytes,    \* a layer's share of a manifest, without its title
          MaxManifest,   \* MAX_METADATA_BYTES
          None

ASSUME PublisherAssumption ==
    /\ Slash \in Nat /\ MaxFiles \in Nat /\ LayerBytes \in Nat /\ MaxManifest \in Nat
    /\ None \notin Paths

\* Segments are what is left when a text is split at its slashes.
ASSUME SegmentAssumption ==
    /\ \A s \in Segments : \A i \in DOMAIN Spelling[s] : Spelling[s][i] # Slash
    /\ \A s, t \in Segments : Spelling[s] = Spelling[t] => s = t

(***************************************************************************)
(* Manifests.                                                              *)
(***************************************************************************)

Layers == [visible : BOOLEAN,          \* carries the visibility annotation
           title   : Paths \cup {None},
           valid   : BOOLEAN,          \* validate_descriptor: digest, size, media type
           plain   : BOOLEAN]          \* nothing but these two annotations, and the
                                       \* media type its title calls for

Manifests == [standard : BOOLEAN,      \* validate_standard_manifest
              marked   : BOOLEAN,      \* the publisher's annotation and nothing else
              empty    : BOOLEAN,      \* the empty config
              layers   : Seq(Layers)]

ManifestBytes(m) ==
    FoldLeft(LAMBDA n, l : n + LayerBytes + IF l.title = None THEN 0 ELSE Bytes(l.title),
             0, m.layers)

Visible(m) == {i \in DOMAIN m.layers : m.layers[i].visible}

Titles(m) == {m.layers[i].title : i \in Visible(m)}

\* get_json reads that much and no more; then every visible layer must make an
\* object, and the index take it.
Projects(m) ==
    /\ ManifestBytes(m) <= MaxManifest
    /\ m.standard
    /\ \A i \in Visible(m) :
          LET l == m.layers[i] IN
          /\ l.title \in Paths /\ l.valid /\ FileTitle(l.title)
          /\ \A j \in Visible(m) : j < i => ~Collide(l.title, m.layers[j].title)

Precedes(x, y) ==
    \E n \in 0..Len(x) :
       /\ n < Len(y) /\ \A i \in 1..n : x[i] = y[i]
       /\ n = Len(x) \/ x[n + 1] < y[n + 1]

\* A segment as it stands in the text of a path, before the next.
Written(p, i) == Spelling[p[i]] \o IF i < Len(p) THEN <<Slash>> ELSE <<>>

\* The order of titles as strings: the first segment that differs decides, and a
\* slash is a byte like the others.
TitleLess(p, q) ==
    \E n \in 0..Len(p) :
       /\ n < Len(q) /\ \A i \in 1..n : p[i] = q[i]
       /\ n = Len(p) \/ Precedes(Written(p, n + 1), Written(q, n + 1))

\* AutoindexSnapshot::is_crud_compatible.
CrudCompatible(m) ==
    /\ m.marked /\ m.empty /\ m.layers # <<>>
    /\ \A i \in DOMAIN m.layers : m.layers[i].visible /\ m.layers[i].plain
    /\ \A i \in 1..(Len(m.layers) - 1) :
          LET s == m.layers[i].title
              t == m.layers[i + 1].title
          IN  s # None /\ t # None /\ TitleLess(s, t)

(***************************************************************************)
(* Publication::from_directory.  A directory is the set of its files.      *)
(***************************************************************************)

Publishable(D) ==
    /\ D # {} /\ Cardinality(D) <= MaxFiles
    /\ \A p \in D : ValidPath(p)

NativeLayer(p) == [visible |-> TRUE, title |-> p, valid |-> TRUE, plain |-> TRUE]

Native(titles) == [standard |-> TRUE, marked |-> TRUE, empty |-> TRUE,
                   layers |-> [i \in DOMAIN titles |-> NativeLayer(titles[i])]]

Sorted(D, Before(_, _)) ==
    CHOOSE s \in SetToSeqs(D) : \A i, j \in DOMAIN s : i < j => Before(s[i], s[j])

\* PathBuf compares component by component.
NameLess(p, q) ==
    \E n \in 0..Len(p) :
       /\ n < Len(q) /\ \A i \in 1..n : p[i] = q[i]
       /\ n = Len(p) \/ Precedes(Spelling[p[n + 1]], Spelling[q[n + 1]])

\* Seeded fault: the layers stay in the order the files were found in.
PublishedAsFound(D) == Native(Sorted(D, NameLess))

Published(D) == Native(Sorted(D, TitleLess))
=============================================================================
