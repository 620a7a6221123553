-------------------------- MODULE MCPrepareSources --------------------------
(* An instance of PrepareSources: two files, with every combination of where  *)
(* the first one can come from, what modifies it and what is configured.      *)
EXTENDS PrepareSources

Has(f, c) == [Empty EXCEPT ![f] = c]
Entry(f, hash, origin) == [name |-> f, hash |-> hash, origin |-> origin, replace |-> TRUE, inputs |-> {}]
New(f, hash, origin, inputs) == [name |-> f, hash |-> hash, origin |-> origin, replace |-> FALSE, inputs |-> inputs]

MCRefs ==
  {<<>>,
   <<Entry(1, 2, "download")>>, <<Entry(1, None, "download")>>, <<New(1, 1, "download", {})>>,
   <<Entry(1, NContents + 1, "overlay")>>, <<Entry(1, None, "overlay")>>,
   <<New(2, 2, "custom", {1})>>, <<New(2, None, "custom", {1}), New(1, 1, "download", {})>>}

\* Options and distro, named for what differs from the first.
Usual == [noHashes |-> FALSE, skip |-> FALSE, plain |-> FALSE, lookaside |-> TRUE, provider |-> TRUE, origins |-> TRUE]

MCOptions ==
  {Usual, [Usual EXCEPT !.noHashes = TRUE], [Usual EXCEPT !.skip = TRUE], [Usual EXCEPT !.plain = TRUE],
   [Usual EXCEPT !.lookaside = FALSE], [Usual EXCEPT !.provider = FALSE], [Usual EXCEPT !.origins = FALSE]}

With(src, tracked, sources, refs, overlays, o) ==
  [src |-> src, tracked |-> tracked, sources |-> sources, refs |-> refs, overlays |-> overlays, loose |-> <<>>,
   noHashes |-> o.noHashes, skip |-> o.skip, plain |-> o.plain,
   lookaside |-> o.lookaside, provider |-> o.provider, origins |-> o.origins]

Op(kind, f, to) == [kind |-> kind, file |-> f, to |-> to, content |-> 2]

MCLoose ==
  {<<Op("add", 2, 2)>>, <<Op("remove", 1, 1)>>, <<Op("edit", 1, 1), Op("rename", 1, 2)>>,
   <<Op("rename", 1, 2), Op("add", 1, 1)>>, <<Op("remove", 1, 1), Op("edit", 1, 1)>>}

MCCommands ==
  {With(src, Empty, Has(1, 1), refs, overlays, o) :
     src \in {"upstream", "local"}, refs \in MCRefs, overlays \in {{}, {1}}, o \in MCOptions}
  \cup {With(src, tracked, sources, refs, overlays, Usual) :
     src \in {"upstream", "local"}, tracked \in {Empty, Has(1, 2)},
     sources \in {Empty, Has(1, 1), <<1, 2>>}, refs \in MCRefs, overlays \in {{}, {1}}}
  \cup {[With(src, tracked, Has(1, 1), refs, overlays, o) EXCEPT !.loose = loose] :
     src \in {"upstream", "local"}, tracked \in {Empty, Has(1, 1)}, refs \in {<<>>, <<Entry(1, NContents + 1, "overlay")>>},
     overlays \in {{}, {1}}, loose \in MCLoose, o \in {Usual, [Usual EXCEPT !.skip = TRUE]}}

=============================================================================
