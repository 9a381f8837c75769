------------------------------ MODULE MCShell ------------------------------
(* The lines that are typed: all short ones, and pipelines of three commands. *)
EXTENDS Shell

Programs == {"source", "filter", "end"}

MCLines ==
  {l \in SeqOf({"|", "<", ">", "filter"}, 4) : Cardinality({k \in DOMAIN l : l[k] = "|"}) <= 2}
  \cup {<<a, "|", b>> : a, b \in Programs}
  \cup {<<a, "|", b, "|", c>> : a, b, c \in Programs}
  \cup {<<"end", "<", "f", ">", "g", ">", "h", "<", "k">>,
        <<"source", ">", "f", "|", "filter", "<", "g">>}

\* Closed descriptors, or the standard input and output.
MCGarbage == {<<-1, -1>>, <<0, 1>>, <<1, 0>>}
=============================================================================
