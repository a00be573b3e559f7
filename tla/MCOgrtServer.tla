---------------------------- MODULE MCOgrtServer ----------------------------
(* Instances of OgrtServer for TLC.                                        *)
EXTENDS OgrtServer, TLC

CONSTANTS d1, d2, d3, d4, m1, m2, m3, m4, es, es2, tcp, file, w1, w2, w3

OneMessageEach == [d \in Datagrams |->
                     CASE d = d1 -> m1 [] d = d2 -> m2 [] d = d3 -> m3 [] OTHER -> m4]

AllInfo  == [m \in Messages |-> "ProcessInfoMsg"]
OneOther == [m \in Messages |-> IF m = m3 THEN "JobEndMsg" ELSE "ProcessInfoMsg"]

\* With two cells in the buffer, a short message, two that fill it, and one
\* that is longer than it.
OneCell  == [m \in Messages |-> 1]
OneToThree == [m \in Messages |-> CASE m = m2 -> 1 [] m = m4 -> 3 [] OTHER -> 2]

TypeByName == [o \in Outputs |-> CASE o = tcp -> "JsonOverTcp"
                                   [] o = file -> "JsonFile"
                                   [] OTHER -> "JsonElasticSearch"]

\* Two workers for the file and one for TCP; one each for two ElasticSearch
\* outputs, and none for any other.
FileFileTcp == w1 :> file @@ w2 :> file @@ w3 :> tcp
EsEs2       == w1 :> es @@ w2 :> es2
Tcp         == w1 :> tcp

\* The two workers of one output are interchangeable.
WorkerSymmetry == Permutations({w1, w2})
=============================================================================
