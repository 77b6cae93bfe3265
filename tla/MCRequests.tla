------------------------------- MODULE MCRequests -------------------------------
(***************************************************************************)
(* Safety of what a daemon and the tools do for a request, for TLC: the    *)
(* registry of workspaces, the requests, the searches, the answers from    *)
(* the symbol store, the documents, and the cache of the model's files.    *)
(* The components share no state, so that a behaviour follows one of them, *)
(* chosen at the start, and their state spaces add up.                     *)
(***************************************************************************)
EXTENDS WorkspaceRegistry, DaemonProtocol, CodeSearch, DocumentSearch, ContextPack,
        CodeAnswers, DocumentStore, Paragraphs, AssetCache, TLC

VARIABLE moving    \* the component this behaviour is about
searchVars == <<codeSearchVars, docSearchVars, packVars, paraVars>>
documentVars == <<storeVars, cacheVars>>
vars == <<moving, registryVars, protocolVars, searchVars, answerVars, documentVars>>

Init ==
    /\ moving \in {"registry", "protocol", "code", "documents", "pack", "answers", "store",
                   "paragraphs", "cache"}
    /\ RegistryInit /\ ProtocolInit /\ CodeSearchInit /\ DocSearchInit /\ PackInit
    /\ AnswersInit /\ disk = ("p" :> "v2" @@ "t" :> "v1")
    /\ StoreInit /\ ParaInit /\ CacheInit
    /\ moving # "registry" => saved = {} /\ config = CHOOSE c \in [Root -> Db] : TRUE
    /\ moving # "documents" => passages = CHOOSE t \in Contents : TRUE
    /\ moving # "store" => file = [p \in Path |-> NoFile]

Next ==
    /\ UNCHANGED moving
    /\ \/ moving = "registry" /\ RegistryNext
          /\ UNCHANGED <<protocolVars, searchVars, answerVars, documentVars>>
       \/ moving = "protocol" /\ ProtocolNext
          /\ UNCHANGED <<registryVars, searchVars, answerVars, documentVars>>
       \/ moving = "code" /\ CodeSearchNext
          /\ UNCHANGED <<registryVars, protocolVars, docSearchVars, packVars, paraVars,
                         answerVars, documentVars>>
       \/ moving = "documents" /\ DocSearchNext
          /\ UNCHANGED <<registryVars, protocolVars, codeSearchVars, packVars, paraVars,
                         answerVars, documentVars>>
       \/ moving = "pack" /\ PackNext
          /\ UNCHANGED <<registryVars, protocolVars, codeSearchVars, docSearchVars, paraVars,
                         answerVars, documentVars>>
       \/ moving = "paragraphs" /\ ParaNext
          /\ UNCHANGED <<registryVars, protocolVars, codeSearchVars, docSearchVars, packVars,
                         answerVars, documentVars>>
       \/ moving = "answers" /\ AnswersNext
          /\ UNCHANGED <<registryVars, protocolVars, searchVars, documentVars>>
       \/ moving = "store" /\ StoreNext
          /\ UNCHANGED <<registryVars, protocolVars, searchVars, answerVars, cacheVars>>
       \/ moving = "cache" /\ CacheNext
          /\ UNCHANGED <<registryVars, protocolVars, searchVars, answerVars, storeVars>>

RequestsSpec == Init /\ [][Next]_vars

\* The actors of the components that have any: request handlers, requests, workers,
\* processes.
ASSUME SameActors == Client = Request /\ Client = Worker /\ Client = Installer
Symmetry == Permutations(Client)

\* One of the databases is configured by an absolute path, which joined to the root
\* names another.
MCJoined == [db \in Db |-> CHOOSE other \in Db : TRUE]

\* Symbols and unsaved files of three paths: nested, far apart, and of two files.
MCPlace == [x \in 1..5 |->
              CASE x = 1 -> [path |-> "a", first |-> 0, last |-> 9, live |-> FALSE]
                [] x = 2 -> [path |-> "a", first |-> 2, last |-> 4, live |-> FALSE]
                [] x = 3 -> [path |-> "b", first |-> 0, last |-> 3, live |-> FALSE]
                [] x = 4 -> [path |-> "b", first |-> 0, last |-> 4, live |-> TRUE]
                [] x = 5 -> [path |-> "c", first |-> 0, last |-> 2, live |-> TRUE]]

\* A document without tags and one of two paragraphs; or that one has been written again,
\* shorter and without its tag, and a third document has the row it gave up.
Passage(d, n, has, len) == [doc |-> d, seq |-> n, tags |-> has, length |-> len]
MCContents == {<<Passage("b", 1, {}, 3), Passage("a", 1, {"t"}, 2), Passage("a", 2, {"t"}, 1)>>,
               <<Passage("b", 1, {}, 3), Passage("a", 1, {}, 1), Passage("c", 1, {"t"}, 2)>>}

\* Ranges of three lines of a file, of which one or two connect others, and one of
\* another file; a body costs twice what its hit does, and the second declaration
\* twice what the others do.
MCDeclLines ==
    {r \in [path : {"a"}, first : 0..2, last : {0, 2}] : r.first <= r.last}
    \cup {[path |-> "b", first |-> 0, last |-> 2]}
MCCost == [x \in Stage \X (1..MaxFound) |->
             (IF x[2] = 2 THEN 2 ELSE 1) * (IF x[1] = "symbols" THEN 2 ELSE 1)]

\* A function that contains another; one of another signature; and two of one name.
Symbol(n, s, a, b) == [name |-> n, sig |-> s, first |-> a, last |-> b]
MCDecl == [v \in Version |->
             CASE v = "v1" -> {Symbol("f", 1, 0, 5), Symbol("g", 1, 2, 3)}
               [] v = "v2" -> {Symbol("f", 3, 0, 5)}
               [] v = "v3" -> {Symbol("f", 1, 0, 2), Symbol("f", 2, 3, 5)}]

\* What both searches answer is ranked as their statements say.
AnswersAreRanked == SearchIsRanked /\ HitsAreRanked
================================================================================
