----------------------------- MODULE LspRoutes -----------------------------
(***************************************************************************)
(* Where workspaced lsp sends a request and what it makes of the answers   *)
(* (internal/lsp: onInitialize, config.go, forwardRequest, merge.go): the  *)
(* workspace of the handshake and its configuration, the language of a     *)
(* document, the servers attached to a language, and one answer of many.   *)
(* Each message is handled at once here; LspProxy has the interleavings.   *)
(* Of an answer its shape and its items are kept.                          *)
(***************************************************************************)
EXTENDS Integers, Sequences, FiniteSets, SequencesExt

CONSTANTS
  Doc, Ext, LanguageId, Lang, Server,
  ExtOf,     \* the extension of each document, or None
  Rank,      \* where a server's name stands in the order of strings
  Configs,   \* the lsp blocks that a workspace may have
  Methods, None, MaxOpens

(* An extension may be written in several ways (go, .go, .GO), and each way *)
(* is an entry; an attachment's key is a number, or none, and the server.  *)
RoutesAssumption ==
  /\ ExtOf \in [Doc -> Ext \cup {None}]
  /\ Rank \in [Server -> 11 .. 99]
  /\ \A s, t \in Server : Rank[s] = Rank[t] => s = t
  /\ \A c \in Configs :
       /\ c.extensions \subseteq Ext \X (Lang \cup {None})
       /\ c.languageIDs \subseteq LanguageId \X Lang
       /\ c.attachments \subseteq
            [lang : Lang, digits : Seq(0 .. 9), server : Server, caps : SUBSET STRING]
  /\ MaxOpens \in Nat

VARIABLES
  cfg,       \* Proxy.cfg once initialize was answered, None before
  open,      \* the language each open document was given, "closed" for the rest
  tried, bound,  \* langServers: the languages it knows, and those with servers
  backends,  \* the servers in the backends map
  reply,     \* the message just handled: who was sent it, what they said, the answer
  opens      \* bounded counter

rvars == <<cfg, open, tried, bound, backends, reply, opens>>

NoReply == [method |-> None, doc |-> None, asked |-> <<>>, said |-> <<>>, out |-> None]
Empty == [extensions |-> {}, languageIDs |-> {}, attachments |-> {}]
-----------------------------------------------------------------------------
(* config.go.                                                              *)

\* Of two spellings of one extension the map's order decides which is kept.
Normalized(c) ==
  {m \in SUBSET c.extensions :
     \A e \in Ext : \A l \in Lang \cup {None} : <<e, l>> \in c.extensions =>
        \E n \in Lang \cup {None} : {x \in m : x[1] = e} = {<<e, n>>}}

LoadConfig(c) == {[c EXCEPT !.extensions = m] : m \in Normalized(c)}

\* The extension decides, and the editor's language when it does not.
Entries(pairs, k) == {p[2] : p \in {q \in pairs : q[1] = k}} \ {None}
ResolveLanguage(ext, id) ==
  LET byExt == Entries(cfg.extensions, ext)
      byId == Entries(cfg.languageIDs, id)
  IN  IF byExt # {} THEN CHOOSE l \in byExt : TRUE
      ELSE IF byId # {} THEN CHOOSE l \in byId : TRUE
      ELSE None

\* The keys are sorted as strings: "10_x" lies before "1_x" and "9_x".
Chars(b) == (IF b.digits = <<>> THEN <<>> ELSE Append(b.digits, 10)) \o <<Rank[b.server]>>
Before(s, t) ==
  \E i \in DOMAIN s \cap DOMAIN t :
     s[i] < t[i] /\ \A j \in 1 .. i - 1 : s[j] = t[j]
BindingsFor(l) ==
  SetToSortSeq({b \in cfg.attachments : b.lang = l},
               LAMBDA a, b : Before(Chars(a), Chars(b)))

\* No flag at all stands for every capability.
HasCapability(b, cap) == b.caps = {} \/ cap \in b.caps

\* A method's capability is its last segment, but for these.
Renamed(m) ==
  CASE m = <<"workspace", "symbol">> -> "workspaceSymbol"
    [] m \in {<<"textDocument", "semanticTokens", p>> : p \in {"full", "range"}} ->
         "semanticTokens"
    [] m \in {<<"textDocument", p>> : p \in {"diagnostic", "publishDiagnostics"}} ->
         "diagnostics"
    [] OTHER -> None
CapabilityForMethod(m) == IF Renamed(m) # None THEN Renamed(m) ELSE Last(m)
-----------------------------------------------------------------------------
(* merge.go.  A result: its shape, its items, and whether there are more.  *)
Result(shape, items, more) == [shape |-> shape, items |-> items, more |-> more]
Null == Result("null", <<>>, FALSE)

AllOf(rs, shape) == rs # <<>> /\ \A i \in DOMAIN rs : rs[i].shape = shape
Items(rs) == FlattenSeq([i \in DOMAIN rs |-> rs[i].items])

MergeResults(results) ==
  LET rs == SelectSeq(results, LAMBDA r : r.shape # "null")
  IN  CASE AllOf(rs, "array") -> Result("array", Items(rs), FALSE)
        [] AllOf(rs, "list") ->
             Result("list", Items(rs), \E i \in DOMAIN rs : rs[i].more)
        [] rs = <<>> -> Null
        [] OTHER -> rs[1]
-----------------------------------------------------------------------------
RoutesInit ==
  /\ cfg = None /\ tried = {} /\ bound = {} /\ backends = {}
  /\ open = [d \in Doc |-> "closed"]
  /\ reply = NoReply /\ opens = 0

(* The root comes from rootUri, the single folder or rootPath.  A block    *)
(* that cannot be loaded is an empty one; of two folders, or without a     *)
(* root, the answer is an error and the editor may try again.              *)
OnInitialize(rootUri, folders, rootPath, loads) ==
  /\ cfg = None
  /\ IF folders > 1 \/ ~(rootUri \/ folders = 1 \/ rootPath)
       THEN UNCHANGED cfg
       ELSE \E c \in Configs : cfg' \in IF loads THEN LoadConfig(c) ELSE {Empty}
  /\ UNCHANGED <<open, tried, bound, backends, reply, opens>>

(* A language is tried once: its servers are started in order up to one    *)
(* that cannot be, and then the language keeps none.                       *)
First(bs, n) == {bs[i].server : i \in 1 .. n}
EnsureLanguage(l) ==
  IF l \in tried THEN UNCHANGED <<tried, bound, backends>>
  ELSE LET bs == BindingsFor(l)
       IN /\ tried' = tried \cup {l}
          /\ \E n \in 0 .. Len(bs) :
               /\ n < Len(bs) => bs[n + 1].server \notin backends \cup First(bs, n)
               /\ backends' = backends \cup First(bs, n)
               /\ bound' = bound \cup IF n = Len(bs) /\ n > 0 THEN {l} ELSE {}

DidOpen(d, id) ==
  /\ cfg # None /\ open[d] = "closed" /\ opens < MaxOpens
  /\ opens' = opens + 1
  /\ open' = [open EXCEPT ![d] = ResolveLanguage(ExtOf[d], id)]
  /\ IF open'[d] = None THEN UNCHANGED <<tried, bound, backends>>
     ELSE EnsureLanguage(open'[d])
  /\ UNCHANGED <<cfg, reply>>

DidClose(d) ==
  /\ open[d] # "closed"
  /\ open' = [open EXCEPT ![d] = "closed"]
  /\ UNCHANGED <<cfg, tried, bound, backends, reply, opens>>

(* The language a message is about: of its document, if it names one.      *)
LanguageOf(d) ==
  IF d = None THEN None
  ELSE IF open[d] # "closed" THEN open[d] ELSE ResolveLanguage(ExtOf[d], None)

Live(l) == IF l \in bound' THEN BindingsFor(l) ELSE <<>>
ServerHasCapability(s, cap) ==
  \/ \E l \in bound : \E b \in ToSet(BindingsFor(l)) : b.server = s /\ HasCapability(b, cap)
  \/ tried = {}

(* Without a language every able server is asked, in the order of a map.   *)
Targets(l, cap) ==
  IF l = None
    THEN SetToSeqs({s \in backends : ServerHasCapability(s, cap)})
    ELSE LET able(b) == HasCapability(b, cap) /\ b.server \in backends'
         IN  {[i \in DOMAIN SelectSeq(Live(l), able) |-> SelectSeq(Live(l), able)[i].server]}

(* What a server may say: results of each shape, an error or no answer in  *)
(* time, or a message with neither a result nor an error.                  *)
Says(s) ==
  {Result("array", <<s>>, FALSE), Result("array", <<>>, FALSE),
   Result("list", <<s>>, TRUE), Result("list", <<s>>, FALSE),
   Result("object", <<s>>, FALSE), Null,
   Result("error", <<>>, FALSE), Result("nothing", <<>>, FALSE)}

Unsupported == Result("unsupported", <<>>, FALSE)
Failed == Result("failed", <<>>, FALSE)

ForwardRequest(m, d) ==
  /\ cfg # None
  /\ IF LanguageOf(d) = None THEN UNCHANGED <<tried, bound, backends>>
     ELSE EnsureLanguage(LanguageOf(d))
  /\ \E asked \in Targets(LanguageOf(d), CapabilityForMethod(m)) :
       \E said \in {r \in [DOMAIN asked -> UNION {Says(s) : s \in ToSet(asked)}] :
                      \A i \in DOMAIN asked : r[i] \in Says(asked[i])} :
          LET results == SelectSeq(said, LAMBDA r : r.shape \notin {"error", "nothing"})
              out == CASE results # <<>> -> MergeResults(results)
                       [] \E i \in DOMAIN said : said[i].shape = "error" -> Failed
                       [] OTHER -> Unsupported
          IN  reply' = [method |-> m, doc |-> d, asked |-> asked, said |-> said, out |-> out]
  /\ UNCHANGED <<cfg, open, opens>>

(* didSave goes to the servers of the document's language, and to all when *)
(* it has none; so does any notification that names no document.           *)
FanoutNotify(d) ==
  /\ cfg # None
  /\ LET l == LanguageOf(d)
         to == IF l = None THEN backends
               ELSE {b.server : b \in IF l \in bound THEN ToSet(BindingsFor(l)) ELSE {}} \cap backends
     IN  \E asked \in SetToSeqs(to) :
           reply' = [NoReply EXCEPT !.doc = d, !.asked = asked]
  /\ UNCHANGED <<cfg, open, tried, bound, backends, opens>>

(* The loop turns to its next message.                                     *)
Turns ==
  /\ reply # NoReply
  /\ reply' = NoReply
  /\ UNCHANGED <<cfg, open, tried, bound, backends, opens>>

(* handleClient.                                                           *)
Handles ==
  \/ \E uri, path, loads \in BOOLEAN, n \in 0 .. 2 : OnInitialize(uri, n, path, loads)
  \/ \E d \in Doc : DidClose(d) \/ (\E id \in LanguageId : DidOpen(d, id))
  \/ \E d \in Doc \cup {None} : FanoutNotify(d) \/ (\E m \in Methods : ForwardRequest(m, d))

RoutesNext == Turns \/ (reply = NoReply /\ Handles)
-----------------------------------------------------------------------------
(* Properties.                                                             *)

\* Whom a message of a document concerns: the servers attached to its
\* language by an entry that has the method's capability.
Concerned(d, m) ==
  {b.server : b \in {x \in cfg.attachments :
     x.lang = LanguageOf(d) /\ (m = None \/ HasCapability(x, CapabilityForMethod(m)))}}

\* A message about a document of a known language reaches servers it
\* concerns and no other, each once and in the order of their keys, and all
\* of them when the language was started (forwardRequest, bindingsLive).
RoutedRight ==
  reply # NoReply /\ LanguageOf(reply.doc) # None =>
    /\ ToSet(reply.asked) \subseteq Concerned(reply.doc, reply.method)
    /\ LanguageOf(reply.doc) \in bound => ToSet(reply.asked) = Concerned(reply.doc, reply.method)
    /\ Len(reply.asked) = Cardinality(ToSet(reply.asked))

\* What the editor is shown is everything that was said, as often and in the
\* order it was said, and announced as incomplete when a part of it is; of
\* answers that cannot be put together it is one of them, whole; and it is an
\* error just when nobody said anything (mergeResults, forwardRequest).
NothingLostInMerge ==
  LET good == {i \in DOMAIN reply.said : reply.said[i].shape \notin {"error", "nothing"}}
      some == {i \in good : reply.said[i].shape # "null"}
      shapes == {reply.said[i].shape : i \in some}
      out == reply.out
  IN  reply.method # None =>
        /\ out.shape \in {"unsupported", "failed"} <=> good = {}
        /\ out.shape = "failed" => \E i \in DOMAIN reply.said : reply.said[i].shape = "error"
        /\ out.shape = "null" <=> good # {} /\ some = {}
        /\ shapes \in {{"array"}, {"list"}} =>
             /\ out.shape \in shapes
             /\ out.items = Items(SelectSeq(reply.said, LAMBDA r : r.shape \in shapes))
             /\ out.more <=> \E i \in some : reply.said[i].more
        /\ some # {} /\ shapes \notin {{"array"}, {"list"}} =>
             \E i \in some : out = reply.said[i] /\ \A j \in some : i <= j

\* A request is put to those it concerns, and nothing of their answers is lost
\* (forwardRequest, mergeResults).
AnswerIsWhole == RoutedRight /\ NothingLostInMerge
=============================================================================
