----------------------------- MODULE MCMxmlLoad -----------------------------
EXTENDS MxmlLoad

A == Element("Station", <<Element("#text", <<>>)>>)
B == Element("Station", <<>>)
C == Element("comment", <<>>)

Network(children) == Element("Network", children)

NetworkLists ==
  {<<Network(<<A>>)>>, <<Network(<<B, A>>), Network(<<C, B>>)>>,
   <<Network(<<A>>), C, Network(<<>>), Element("Sender", <<>>)>>}

Networks == UNION {{networks[i] : i \in DOMAIN networks} : networks \in NetworkLists}

MCTrees ==
  {A, B, C, Element("#text", <<>>)} \cup Networks
    \cup {Element("FDSNStationXML", networks) : networks \in NetworkLists}

MCDocuments ==
  [before : {<<>>, <<Space>>, <<Comment>>, <<Declaration>>, <<Declaration, Space>>,
             <<Declaration, Comment>>, <<Space, Declaration, DocumentType>>},
   networks : NetworkLists,
   after : {<<>>, <<Space>>, <<Space, Comment>>, <<Comment, Space>>},
   spaced : BOOLEAN]

MCHarms == {NoHarm} \cup [at : 1..40, form : {"whole", "in_name", "behind_name", "in_rest", "bad", "other"}]
=============================================================================
