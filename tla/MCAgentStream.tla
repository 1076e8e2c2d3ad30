--------------------------- MODULE MCAgentStream ---------------------------
(* Bodies of up to three lines, in frames of one or more, with or without *)
(* [DONE], and with or without the blank line at the end.                 *)
EXTENDS AgentStream

CONSTANTS t1, t2

MCToken == {t1, t2}

Lines == {<<Data, t1>>, <<Data, t2>>, <<Data, Other>>, <<Other>>}
Ends  == {<<NL>>, <<NL, NL>>}
Tails == {<<>>, <<NL, NL>>}

MCBodies ==
  {<<>>} \union
  {l \o e : l \in Lines \union {<<Data, Done>>}, e \in Tails} \union
  {l \o d \o m \o e : l \in Lines, d \in Ends, m \in Lines \union {<<Data, Done>>}, e \in Tails} \union
  {l \o d \o m \o f \o <<Data, Done>> \o e :
     l \in Lines, d \in Ends, m \in Lines, f \in Ends, e \in Tails}
=============================================================================
