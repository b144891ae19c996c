------------------------------- MODULE MCParts -----------------------------
(* Seven parts that share no state, each on a small instance: MemoryUpkeep,  *)
(* TokenPacer, FoldMigration, Chunking, Lexical, TurnTraces and              *)
(* ConversationBuffer.  A behaviour is one of one of them, which part tells; *)
(* the others stay at a fixed beginning.                                     *)
EXTENDS MemoryUpkeep, TokenPacer, FoldMigration, Chunking, Lexical, TurnTraces,
        ConversationBuffer

CONSTANTS f1, f2, f3

VARIABLE part

partsVars == <<part, upkeepVars, pacerVars, migrationVars, file, lexicalVars,
               tracesVars, bufferVars>>

Symmetry == Permutations(Facts)

(* FoldMigration: three nodes of one key, and one of another. *)
MCKey   == [n \in Nodes |-> IF n <= 3 THEN "rex" ELSE "ana"]
MCStart == {<<1, "knows", 1>>, <<1, "knows", 2>>, <<2, "knows", 3>>, <<1, "knows", 4>>,
            <<2, "knows", 4>>, <<4, "knows", 3>>, <<4, "knows", 1>>}
MCAsserted == {<<2, "knows", 4>>}

(* Chunking: chunks of ten characters that overlap in three. *)
Text(s)       == [kind |-> "text", text |-> s]
Heading(n, t) == [kind |-> "heading", level |-> n, title |-> t, text |-> <<"#">> \o t]
Fence(m, n)   == [kind |-> "fence", fence |-> <<m, n>>, text |-> <<"~">>]

MCCharacters == {" ", "/", ">", "#", "~", "P", "Q", "R",
                 "a", "b", "c", "d", "e", "f", "g", "x", "y", "z"}
MCTitle == <<"P">>
MCLines == {Text(<<>>), Text(<<"a", "b", " ", "c", " ", "d", "e", "f">>),
            Text(<<"a", "b", "c", "d", "e", "f", "g">>),
            Text(<<"d", "e", "f", " ", "x", "y", "z">>),
            Heading(1, <<"P">>), Heading(1, <<"Q">>), Heading(2, <<"R">>), Heading(1, <<>>),
            Fence("tilde", 3), Fence("tick", 4)}
MCMarkedLines == {Text(<<"a", "b">>), Heading(2, <<">", " ", "x">>), Heading(2, <<">">>)}
MCPages == {<<>>, <<Text(<<"a", "b", " ", "c", " ", "d", "e", "f">>)>>,
            <<Text(<<"x", " ", "y">>), Text(<<>>),
              Text(<<"a", "b", "c", "d", "e", "f", "g">>)>>}
MCBookmarks == {[level |-> 1, page |-> 1, title |-> <<"P">>],
                [level |-> 2, page |-> 1, title |-> <<"Q">>],
                [level |-> 1, page |-> 2, title |-> <<"R">>]}

(* Lexical: four facts about two people and a dog, and two memories. *)
Fact(id, key, words, head, tail) ==
  [id |-> id, key |-> key, words |-> words, head |-> head, tail |-> tail]

MCEdges == {Fact(1, "k1", {"ana", "pet", "rex"}, <<"ana", "silva">>, <<"rex">>),
            Fact(2, "k2", {"rex", "beagle"}, <<"rex">>, <<"beagle">>),
            Fact(3, "k3", {"ana", "silva", "teaches", "art"}, <<"ana", "silva">>, <<"art">>),
            Fact(4, "k4", {"eva", "pet", "rex"}, <<"eva">>, <<"rex">>)}
MCTwins == MCEdges \cup {Fact(5, "k1", {"ana", "pet", "rex"}, <<"ana", "silva">>, <<"rex">>)}
MCRecall == << [id |-> 7, words |-> {"ana", "fee", "the"}], [id |-> 8, words |-> {"pet", "fee"}] >>
MCQuestions ==
  {[asked |-> {{"ana", "pet", "the"}, {"has", "ana", "a", "dog"}}, anchors |-> {}],
   [asked |-> {{"fee"}}, anchors |-> {<<"ana">>}],
   [asked |-> {{"park", "car", "late", "ana"}}, anchors |-> {<<"the", "ana">>}],
   [asked |-> {{"pet"}, {"the"}}, anchors |-> {<<"eva">>}],
   [asked |-> {{"tax"}}, anchors |-> {<<"rex">>, <<"the">>}],
   [asked |-> {{"tax"}}, anchors |-> {<<"bob">>}]}

-----------------------------------------------------------------------------
\* Nothing of a part that idles is read.
UpkeepIdles    ==
  /\ rows = [f \in Facts |-> Nil] /\ walk = NoWalk
  /\ marks = [standing |-> {}, disturbed |-> {}, revised |-> {}, told |-> [f \in Facts |-> 0]]
  /\ calls = 0
PacerIdles     == PacerInit
MigrationIdles == MigrationInit /\ edges = {}
ChunkingIdles  == ChunkingInit
LexicalIdles   ==
  /\ question = [asked |-> {}, anchors |-> {}] /\ built = <<>> /\ walks = <<>>
  /\ sources = [s \in ToSet(Sources) |-> "asked"] /\ answer = NoAnswer

TracesIdles    == TracesInit
BufferIdles    == BufferInit

PartsInit ==
  \/ /\ part = "upkeep" /\ UpkeepInit
     /\ PacerIdles /\ MigrationIdles /\ ChunkingIdles /\ LexicalIdles /\ TracesIdles
     /\ BufferIdles
  \/ /\ part = "pacer" /\ PacerInit
     /\ UpkeepIdles /\ MigrationIdles /\ ChunkingIdles /\ LexicalIdles /\ TracesIdles
     /\ BufferIdles
  \/ /\ part = "migration" /\ MigrationInit
     /\ UpkeepIdles /\ PacerIdles /\ ChunkingIdles /\ LexicalIdles /\ TracesIdles /\ BufferIdles
  \/ /\ part = "chunking" /\ ChunkingInit
     /\ UpkeepIdles /\ PacerIdles /\ MigrationIdles /\ LexicalIdles /\ TracesIdles
     /\ BufferIdles
  \/ /\ part = "lexical" /\ LexicalInit
     /\ UpkeepIdles /\ PacerIdles /\ MigrationIdles /\ ChunkingIdles /\ TracesIdles
     /\ BufferIdles
  \/ /\ part = "traces" /\ TracesInit
     /\ UpkeepIdles /\ PacerIdles /\ MigrationIdles /\ ChunkingIdles /\ LexicalIdles
     /\ BufferIdles
  \/ /\ part = "buffer" /\ BufferInit
     /\ UpkeepIdles /\ PacerIdles /\ MigrationIdles /\ ChunkingIdles /\ LexicalIdles
     /\ TracesIdles

PartsNext ==
  \/ /\ part = "upkeep" /\ UpkeepNext
     /\ UNCHANGED <<part, pacerVars, migrationVars, file, lexicalVars, tracesVars, bufferVars>>
  \/ /\ part = "pacer" /\ PacerNext
     /\ UNCHANGED <<part, upkeepVars, migrationVars, file, lexicalVars, tracesVars, bufferVars>>
  \/ /\ part = "migration" /\ MigrationNext
     /\ UNCHANGED <<part, upkeepVars, pacerVars, file, lexicalVars, tracesVars, bufferVars>>
  \/ /\ part = "chunking" /\ ChunkingNext
     /\ UNCHANGED <<part, upkeepVars, pacerVars, migrationVars, lexicalVars, tracesVars,
                    bufferVars>>
  \/ /\ part = "lexical" /\ LexicalNext
     /\ UNCHANGED <<part, upkeepVars, pacerVars, migrationVars, file, tracesVars, bufferVars>>
  \/ /\ part = "traces" /\ TracesNext
     /\ UNCHANGED <<part, upkeepVars, pacerVars, migrationVars, file, lexicalVars, bufferVars>>
  \/ /\ part = "buffer" /\ BufferNext
     /\ UNCHANGED <<part, upkeepVars, pacerVars, migrationVars, file, lexicalVars, tracesVars>>

PartsSpec == PartsInit /\ [][PartsNext]_partsVars

\* The migration among others who write.
AmongWriters ==
  /\ part = "migration" /\ PartsInit
  /\ [][/\ MigrationNext \/ AssertEdge
        /\ UNCHANGED <<part, upkeepVars, pacerVars, file, lexicalVars, tracesVars, bufferVars>>
       ]_partsVars

\* What changes in a part.  What the report has counted decides nothing, and no property of
\* the run reads it.
PartView ==
  CASE part = "upkeep"    -> <<part, upkeepVars>>
    [] part = "pacer"     -> <<part, pacerVars>>
    [] part = "migration" -> <<part, <<nodes, edges, stays, merging, aliases, before>>>>
    [] part = "chunking"  -> <<part, <<file>>>>
    [] part = "lexical"   -> <<part, lexicalVars>>
    [] part = "traces"    -> <<part, tracesVars>>
    [] part = "buffer"    -> <<part, bufferVars>>
=============================================================================
