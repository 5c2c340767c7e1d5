------------------------------ MODULE Lookups ------------------------------
(***************************************************************************)
(* The lookups of src/app/providers that go beyond a web search:           *)
(* Wikipedia and Wikidata, registers, rosters, podcasts, funding rounds    *)
(* and directories.  Each is a method that asks other methods, most of     *)
(* them cache-first, down to a request, a browser, a search engine or a    *)
(* language model; any of those may fail, and what a method caches after   *)
(* a failure differs from one to the next.  The threads of all visits      *)
(* share the cache.                                                        *)
(*                                                                         *)
(* Time is in days and passes between lookups.  What is looked up is left  *)
(* out: an answer says something useful or nothing.  Items asked for in a  *)
(* pool or a loop stand for one.                                           *)
(***************************************************************************)
EXTENDS Integers, Sequences, SequencesExt, FiniteSets, FiniteSetsExt

CONSTANTS Worker,
          Topics,                  \* lookups that visits are after
          Tries,                   \* HTTP_RETRIES + 1
          Slots,                   \* MAX_CONCURRENT_REQUESTS
          TtlPage, TtlSearch, TtlWiki, TtlHeadcount,   \* CACHE_TTL_..., in days
          MaxAsks, MaxFailures, LastDay   \* bounds of a behaviour

-----------------------------------------------------------------------------
(* What each method asks, in order.  Without a Must part's answer there is *)
(* none; an Also part only adds to it; the first Or part that answers does.*)

Must(s) == [of |-> s, mode |-> "must"]
Also(s) == [of |-> s, mode |-> "also"]
Or(s) == [of |-> s, mode |-> "or"]

\* Whether it caches its answer: whatever came of it, if nothing failed, if
\* the page was read and is the right one, unless a page that was there could
\* not be read, or never.
Always(parts, ttl) == [parts |-> parts, keeps |-> "always", ttl |-> ttl]
Answered(parts, ttl) == [parts |-> parts, keeps |-> "answered", ttl |-> ttl]
Readable(parts, ttl) == [parts |-> parts, keeps |-> "readable", ttl |-> ttl]
UnlessUnreadable(parts, ttl) == [parts |-> parts, keeps |-> "unless_unreadable", ttl |-> ttl]
Uncached(parts) == [parts |-> parts, keeps |-> "never", ttl |-> 0]

Leaf == {"request", "browser", "engine", "model"}

\* Wikipedia and Wikidata.
best_title == Always(<<Must("request")>>, TtlWiki)
wikidata_id == Answered(<<Must("request")>>, TtlWiki)
summary == Answered(<<Must("request")>>, TtlWiki)
article_text == Answered(<<Must("request")>>, TtlWiki)
is_human == Uncached(<<Must("request")>>)
official_website == Uncached(<<Must("request")>>)
relationships == Always(<<Must("request"), Must("request")>>, TtlWiki)
colleagues_for_target == Uncached(<<Also("request"), Must("request")>>)
org_headcount ==
  Always(<<Also("official_website"), Must("search"), Must("model")>>, TtlHeadcount)
colleagues ==
  Always(<<Must("request"), Must("colleagues_for_target"), Also("org_headcount")>>, TtlWiki)
enrich_person ==
  Uncached(<<Must("best_title"), Must("wikidata_id"), Must("is_human"), Also("summary"),
             Also("article_text"), Also("relationships"), Also("colleagues"),
             Also("board_members")>>)

\* Registers of companies, filings, nonprofits and authors.
board_members == Always(<<Must("request"), Must("request")>>, TtlWiki)
officers == Always(<<Must("request"), Must("request")>>, TtlWiki)
insiders == Always(<<Must("request"), Must("request")>>, TtlWiki)
resolve_author == Always(<<Must("request")>>, TtlWiki)
coauthors == Always(<<Must("resolve_author"), Must("request")>>, TtlWiki)
coauthors_enrichment == Uncached(<<Must("coauthors"), Also("resolve_author")>>)

\* Searches and pages, and what is read off them.
search == Always(<<Must("engine")>>, TtlSearch)
page == Always(<<Must("request")>>, TtlPage)
rendered == Answered(<<Must("browser")>>, TtlPage)
fetch_readable == Uncached(<<Or("page"), Must("rendered")>>)
roster == Readable(<<Must("fetch_readable")>>, TtlPage)
roster_colleagues == Always(<<Must("search"), Must("roster")>>, TtlWiki)
hosts_and_items == Always(<<Must("request")>>, TtlWiki)
appearances == Always(<<Must("request"), Must("hosts_and_items")>>, TtlWiki)
rounds_for_firm == Always(<<Must("search"), Must("page")>>, TtlWiki)
official_domain == Uncached(<<Must("wikidata_id"), Must("official_website")>>)
find_directory_page == Uncached(<<Must("search"), Must("fetch_readable")>>)
directory ==
  UnlessUnreadable(<<Also("official_domain"), Must("find_directory_page"),
                     Must("fetch_readable")>>, TtlPage)

Method ==
  [best_title |-> best_title, wikidata_id |-> wikidata_id, summary |-> summary,
   article_text |-> article_text, is_human |-> is_human,
   official_website |-> official_website, relationships |-> relationships,
   colleagues_for_target |-> colleagues_for_target, org_headcount |-> org_headcount,
   colleagues |-> colleagues, enrich_person |-> enrich_person,
   board_members |-> board_members, officers |-> officers, insiders |-> insiders,
   resolve_author |-> resolve_author, coauthors |-> coauthors,
   coauthors_enrichment |-> coauthors_enrichment, search |-> search, page |-> page,
   rendered |-> rendered, fetch_readable |-> fetch_readable, roster |-> roster,
   roster_colleagues |-> roster_colleagues, hosts_and_items |-> hosts_and_items,
   appearances |-> appearances, rounds_for_firm |-> rounds_for_firm,
   official_domain |-> official_domain, find_directory_page |-> find_directory_page,
   directory |-> directory]

Lookup == DOMAIN Method
Kept == {s \in Lookup : Method[s].keeps # "never"}
Subs(s) == {Method[s].parts[i].of : i \in DOMAIN Method[s].parts} \ Leaf

\* A lookup and all that it may ask.
Under[s \in Lookup] == {s} \cup UNION {Under[u] : u \in Subs(s)}

\* What other lookups ask too, and visits on their own.
Shared == {"wikidata_id", "roster", "coauthors"}

ASSUME LookupsAssumption ==
  /\ IsFiniteSet(Worker) /\ Topics \subseteq Lookup
  /\ {Tries, Slots, TtlPage, TtlSearch, TtlWiki, TtlHeadcount} \subseteq Nat \ {0}
  /\ {MaxFailures, LastDay} \subseteq Nat /\ MaxAsks \in [Topics -> Nat]

VARIABLES topic,     \* what the visits of this behaviour are after
          day,
          cache,     \* lookup -> what is cached
          stack,     \* worker -> the methods it is in, innermost last
          answer,    \* worker -> what its last lookup returned
          asks, failures   \* calls, and requests that failed for good

lookupVars == <<topic, day, cache, stack, answer, asks, failures>>
world == <<topic, day, asks>>

\* An answer: is it useful, the day of the oldest part that went into it, and
\* of the oldest failure that did, or Never.
Never == -1
Failed == [found |-> FALSE, born |-> day, blamed |-> day]
Said(found) == [found |-> found, born |-> day, blamed |-> Never]
Absent == [found |-> FALSE, born |-> Never, blamed |-> Never, until |-> Never]
NoAnswer == [of |-> "none", day |-> 0, found |-> FALSE, born |-> 0, blamed |-> Never]

\* A method that is running: the part it is at, and whether the last one it
\* asked was of use.
Frame(s) == [of |-> s, at |-> 1, found |-> TRUE, born |-> day, blamed |-> Never]
Top(w) == Last(stack[w])
Parts(f) == Method[f.of].parts
InLookup(w) == stack[w] # <<>> /\ Top(w).of \in Lookup
InLeaf(w) == stack[w] # <<>> /\ Top(w).of \in Leaf

LookupsInit ==
  /\ topic \in Topics /\ day = 0 /\ asks = 0 /\ failures = 0
  /\ cache = [s \in Kept |-> Absent]
  /\ stack = [w \in Worker |-> <<>>]
  /\ answer = [w \in Worker |-> NoAnswer]

-----------------------------------------------------------------------------
Earlier(a, b) == IF a = Never \/ (b # Never /\ b < a) THEN b ELSE a

\* What a method makes of the answer of the part it is at.
With(f, a) ==
  LET mode == Parts(f)[f.at].mode
      stop == (mode = "must" /\ ~a.found) \/ (mode = "or" /\ a.found)
  IN [f EXCEPT !.found = mode = "must" => a.found,
               !.born = Min({@, a.born}),
               !.blamed = Earlier(@, a.blamed),
               !.at = IF ~stop THEN @ + 1 ELSE IF a.found THEN Len(Parts(f)) + 1 ELSE -@]

\* The innermost method returns: to its caller, or to the worker.
Return(w, a) ==
  LET rest == Front(stack[w]) IN
  IF rest = <<>>
  THEN /\ stack' = [stack EXCEPT ![w] = <<>>]
       /\ answer' = [answer EXCEPT ![w] = [of |-> Top(w).of, day |-> day, found |-> a.found,
                                           born |-> a.born, blamed |-> a.blamed]]
  ELSE /\ stack' = [stack EXCEPT ![w] = Append(Front(rest), With(Last(rest), a))]
       /\ UNCHANGED answer

\* A visit calls the lookup it is after, or one of the shared ones under it.
Ask(w) ==
  /\ stack[w] = <<>> /\ asks < MaxAsks[topic]
  /\ asks' = asks + 1
  /\ \E s \in {topic} \cup (Under[topic] \cap Shared) :
       stack' = [stack EXCEPT ![w] = <<Frame(s)>>]
  /\ answer' = [answer EXCEPT ![w] = NoAnswer]
  /\ UNCHANGED <<topic, day, cache, failures>>

\* cache.get: an entry is served until it expires.
Fresh(s) == s \in Kept /\ cache[s].until > day
Entry(s) == [found |-> cache[s].found, born |-> cache[s].born, blamed |-> cache[s].blamed]

\* Bug: being asked for keeps an entry alive.
HitRenews(w) ==
  LET s == Top(w).of IN
  /\ InLookup(w) /\ Top(w).at = 1 /\ Fresh(s)
  /\ cache' = [cache EXCEPT ![s].until = day + Method[s].ttl]
  /\ Return(w, Entry(s))
  /\ UNCHANGED <<world, failures>>

Hit(w) ==
  /\ InLookup(w) /\ Top(w).at = 1 /\ Fresh(Top(w).of)
  /\ Return(w, Entry(Top(w).of))
  /\ UNCHANGED <<world, cache, failures>>

\* The next part is asked; before the first, the cache was.
Descend(w) ==
  /\ InLookup(w) /\ Top(w).at \in DOMAIN Parts(Top(w))
  /\ ~(Top(w).at = 1 /\ Fresh(Top(w).of))
  /\ stack' = [stack EXCEPT ![w] = Append(@, Frame(Parts(Top(w))[Top(w).at].of))]
  /\ UNCHANGED <<world, cache, answer, failures>>

\* Bug: what a failed request left behind is cached too.
KeepsAnything(f, found) == {Method[f.of].keeps # "never"}

\* May the answer be cached?  A page that was read may be another firm's, and
\* then it is not.
Keeps(f, found) ==
  LET k == Method[f.of].keeps IN
  CASE k = "always" -> {TRUE}
    [] k = "never" -> {FALSE}
    [] k = "answered" -> {f.blamed = Never}
    [] OTHER -> IF f.found THEN {TRUE, found}
                ELSE {k = "unless_unreadable" /\ f.at # -Len(Parts(f))}

\* Is the answer of use?  A page that was read may name nobody.
Outcomes(f) ==
  IF Method[f.of].keeps \in {"readable", "unless_unreadable"} /\ f.found THEN BOOLEAN
  ELSE {f.found}

\* All parts are asked, or one that must answer did not.
Finish(w) ==
  LET f == Top(w) IN
  /\ InLookup(w) /\ f.at \notin DOMAIN Parts(f)
  /\ \E found \in Outcomes(f), kept \in BOOLEAN :
       /\ kept \in Keeps(f, found)
       /\ cache' = IF ~kept THEN cache
                   ELSE [cache EXCEPT ![f.of] =
                           [found |-> found, born |-> f.born, blamed |-> f.blamed,
                            until |-> day + Method[f.of].ttl]]
       /\ Return(w, [found |-> found, born |-> f.born, blamed |-> f.blamed])
  /\ UNCHANGED <<world, failures>>

-----------------------------------------------------------------------------
(* Requests, the browser, engines and models.  A leaf is at 2k - 1 before   *)
(* its try k and at 2k in it.                                              *)

TriesOf(s) == CASE s = "request" -> Tries [] s = "browser" -> 2 [] OTHER -> 1

\* A request keeps its slot through all its tries; the browser is locked for
\* one try at a time.
Holds(f) == IF f.of = "request" THEN f.at > 1 ELSE f.at % 2 = 0
Room(s) ==
  LET held == Cardinality({w \in Worker : InLeaf(w) /\ Top(w).of = s /\ Holds(Top(w))}) IN
  CASE s = "request" -> held < Slots [] s = "browser" -> held = 0 [] OTHER -> TRUE

MoveTo(w, at) == stack' = [stack EXCEPT ![w] = Append(Front(@), [Top(w) EXCEPT !.at = at])]

Try(w) ==
  /\ InLeaf(w) /\ Top(w).at % 2 = 1
  /\ Holds(Top(w)) \/ Room(Top(w).of)
  /\ MoveTo(w, Top(w).at + 1)
  /\ UNCHANGED <<world, cache, answer, failures>>

\* An answer that can be read, of use or not.
Reply(w) ==
  /\ InLeaf(w) /\ Top(w).at % 2 = 0
  /\ \E found \in BOOLEAN : Return(w, Said(found))
  /\ UNCHANGED <<world, cache, failures>>

TryAgain(w) ==
  /\ MoveTo(w, IF Top(w).at < 2 * TriesOf(Top(w).of) THEN Top(w).at + 1 ELSE 1)
  /\ UNCHANGED <<world, cache, answer, failures>>

GiveUp(w) ==
  /\ failures < MaxFailures /\ failures' = failures + 1
  /\ Return(w, Failed)
  /\ UNCHANGED <<world, cache>>

\* Bug: a browser that died is started again for as long as it takes.
FailForEver(w) ==
  /\ InLeaf(w) /\ Top(w).at % 2 = 0
  /\ IF Top(w).of = "browser" \/ Top(w).at < 2 * TriesOf(Top(w).of) THEN TryAgain(w)
     ELSE GiveUp(w)

\* No answer in time, a refusal, or one that cannot be read: tried again, and
\* in the end nothing is returned.
Fail(w) ==
  /\ InLeaf(w) /\ Top(w).at % 2 = 0
  /\ IF Top(w).at < 2 * TriesOf(Top(w).of) THEN TryAgain(w) ELSE GiveUp(w)

\* A lookup takes no time worth counting in days.
Tick ==
  /\ day < LastDay /\ \A w \in Worker : stack[w] = <<>>
  /\ day' = day + 1
  /\ UNCHANGED <<topic, cache, stack, answer, asks, failures>>

Inside(w) == Try(w) \/ Descend(w) \/ Hit(w) \/ Finish(w) \/ Reply(w) \/ Fail(w)

LookupsNext == Tick \/ \E w \in Worker : Ask(w) \/ Inside(w)

\* Threads go on and every call has a timeout; callers come and go as they
\* like.
LookupsFairness == \A w \in Worker : WF_lookupVars(Inside(w))
LookupsSpec == LookupsInit /\ [][LookupsNext]_lookupVars /\ LookupsFairness

-----------------------------------------------------------------------------
(* How old an answer, or a failure behind one, may be: lifetimes of caches  *)
(* below one another add up.                                               *)

Lifetime(s) == IF s \in Kept THEN Method[s].ttl - 1 ELSE 0

MaxAge[s \in Lookup] == Lifetime(s) + Max({MaxAge[u] : u \in Subs(s)} \cup {0})

MaxBlame[s \in Lookup] ==
  (IF Method[s].keeps = "answered" THEN 0 ELSE Lifetime(s))
    + Max({MaxBlame[u] : u \in Subs(s)} \cup {0})

\* A lookup never returns something older than the caches it went through
\* keep things, one after the other (cache.py:47-78; CACHE_TTL_* in config.py).
FreshEnough ==
  \A w \in Worker : answer[w].of # "none" =>
    answer[w].day - answer[w].born <= MaxAge[answer[w].of]

\* An outage does not outlive the caches that keep failures; a lookup that
\* does not keep them is tried again at once (wikipedia.py:121-130).
OutageForgotten ==
  \A w \in Worker : answer[w].blamed # Never =>
    answer[w].day - answer[w].blamed <= MaxBlame[answer[w].of]

\* Whatever fails, and however many are waiting for a slot or the browser, a
\* lookup comes back (base.py:41-76, 145-201, browser.py:73-107).
LookupsEnd == \A w \in Worker : []<>(stack[w] = <<>>)

=============================================================================
