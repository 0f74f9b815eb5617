------------------------------ MODULE Routing ------------------------------
(***************************************************************************)
(* How the gateway finds what serves a request: router.Matcher, a trie of  *)
(* the segments of URI templates for each method, and gateway.Router,      *)
(* which takes a prefix off the path, checks the keys that guard it and    *)
(* matches a route. A node of the trie is the segments that lead to it.    *)
(***************************************************************************)
EXTENDS Integers, SequencesExt

CONSTANTS
  Route,      \* routes
  RouteConf,  \* route -> [uri, method, cors, service]
  Prefix,     \* what the gateway answers itself: "api", "view", "metric", ...
  PrefixUri,  \* prefix -> the segments of its URI
  ApiKeys,    \* the keys in their order: [uri, header, value]
  Segment,    \* what is between the slashes of a URI
  ApiRelative, \* whether the prefix of the API is configured without a slash
  Wild,       \* the segment of a template that stands for a parameter
  OneChar     \* segments of one character

\* What is left of a last segment of one character; no method, which stands for all of them.
Cut == ""
AnyMethod == ""

\* AsRelative, applied to what remains of a path: a last segment of one character is lost.
Relative(path) ==
  IF path = <<>> \/ Last(path) \notin OneChar THEN path
  ELSE IF Len(path) = 1 THEN <<>> ELSE Append(Front(path), Cut)

Added == {RouteConf[r].uri : r \in Route} \cup {PrefixUri[p] : p \in Prefix}
           \cup {ApiKeys[i].uri : i \in DOMAIN ApiKeys}

\* Node.Add cuts segments off a URI as Match does, and panics when one is empty: no template
\* that is served has an empty segment, or one character at its end.
ASSUME TemplatesAdded ==
  \A uri \in Added : /\ uri \in Seq(Segment) /\ uri # <<>> /\ Last(uri) \notin OneChar
                     /\ \A i \in DOMAIN uri : uri[i] # Cut

ASSUME Segments == {Cut, Wild} \cup OneChar \subseteq Segment

ASSUME ApiPrefix == "api" \in Prefix

-----------------------------------------------------------------------------
(* Matcher                                                                  *)

Uri(r) == RouteConf[r].uri

\* Matcher.init, Node.Add: the templates under a method; all of them are under no method,
\* those with CORS under OPTIONS too.
Templates(method) ==
  {Uri(r) : r \in {q \in Route : \/ method \in {AnyMethod, RouteConf[q].method}
                                 \/ method = "OPTIONS" /\ RouteConf[q].cors}}

\* The children of a node: getChildOrCreate, getWildcardMatcher.
Children(templates, node) ==
  {t[Len(node) + 1] : t \in {u \in templates : IsPrefix(node, u) /\ u # node}}

\* A faulty variant: a parameter of a template comes before a segment that is equal.
NextWildFirst(templates, node, segment) ==
  LET children == Children(templates, node) IN IF Wild \in children THEN Wild ELSE segment

\* nextMatcher: the child for a segment, which may not be there.
NextSegment(templates, node, segment) ==
  LET children == Children(templates, node) IN IF segment \in children THEN segment ELSE Wild

\* The nodes from the root that a path goes through.
Through(templates, path) ==
  {node \in UNION {{SubSeq(t, 1, n) : n \in 0..Len(t)} : t \in templates} :
     /\ Len(node) <= Len(path)
     /\ \A i \in DOMAIN node : node[i] = NextSegment(templates, SubSeq(node, 1, i - 1), path[i])}

\* Node.Match: a path is matched where it ends or, if it need not be exact, by a leaf.
Match(templates, path, exact) ==
  LET relative == Relative(path)
  IN {node \in Through(templates, relative) :
        Len(node) = Len(relative) \/ (~exact /\ Children(templates, node) = {})}

\* The routes of a node under a method.
Matched(method, node) ==
  {r \in Route : /\ Uri(r) = node
                 /\ \/ method \in {AnyMethod, RouteConf[r].method}
                    \/ method = "OPTIONS" /\ RouteConf[r].cors}

\* MatchAllRoutes; MatchOneRoute: none and more than one are errors.
MatchAll(method, path) == UNION {Matched(method, n) : n \in Match(Templates(method), path, TRUE)}

MatchOne(method, path) ==
  LET found == MatchAll(method, path) IN IF Cardinality(found) = 1 THEN found ELSE {}

-----------------------------------------------------------------------------
(* gateway.Router                                                           *)

\* apiKeyMatches: the first of the keys at the node that a path leads to; with none of them
\* nothing is asked. keys: header -> value, of the request.
KeyFor(path) ==
  LET nodes == Match({ApiKeys[i].uri : i \in DOMAIN ApiKeys}, path, FALSE)
  IN SelectSeq(ApiKeys, LAMBDA k : k.uri \in nodes)

ApiKeyMatches(path, keys) ==
  LET found == KeyFor(path)
  IN found # <<>> => /\ found[1].header \in DOMAIN keys
                     /\ keys[found[1].header] = found[1].value

\* asAPIPrefix: the prefix at the node a path leads to, which is replaced by that of the
\* API; with none the path stays and the prefix is that of the API. What is found is relative,
\* the prefix it is compared with is not always.
PrefixOf(path) ==
  LET nodes == Match({PrefixUri[p] : p \in Prefix}, path, FALSE)
  IN {p \in Prefix : PrefixUri[p] \in nodes}

AsAPIPrefix(path) ==
  IF PrefixOf(path) = {} THEN [prefix |-> "api", path |-> path]
  ELSE LET p == CHOOSE q \in PrefixOf(path) : TRUE
       IN [prefix |-> IF p = "api" /\ ~ApiRelative THEN "other" ELSE p,
           path |-> PrefixUri["api"] \o SubSeq(path, Len(PrefixUri[p]) + 1, Len(path))]

Answer(kind) == [kind |-> kind, routes |-> {}]
Found(kind, routes) == [kind |-> kind, routes |-> routes]

\* HandleRoute
Handled(method, route) ==
  IF method = "OPTIONS" THEN "cors"
  ELSE IF RouteConf[route].service \in {"read", "exec"} THEN RouteConf[route].service ELSE "unserved"

\* matchByRoute, handleRouteWithPrefix
MatchByRoute(method, at, keys) ==
  LET found == MatchOne(method, at.path)
  IN IF found = {} THEN Answer("notfound")
     ELSE LET route == CHOOSE r \in found : TRUE
          IN IF ~ApiKeyMatches(RouteConf[route].uri, keys) THEN Answer("forbidden")
             ELSE IF at.prefix \in {"view", "warmup"} THEN Found(at.prefix, found)
             ELSE Found(Handled(method, route), found)

\* matchByMultiRoutes: what may be described is looked at, what matches is described.
MatchByMultiRoutes(path, keys) ==
  LET all == IF path = PrefixUri["openapi"] \/ path = <<>> THEN Route ELSE MatchAll(AnyMethod, path)
      allowed == {r \in all : ApiKeyMatches(RouteConf[r].uri, keys)}
  IN IF allowed = {} /\ all # {} THEN Answer("forbidden") ELSE Found("openapi", all)

\* handle: inside tells whether the request comes from an allowed subnet.
Handle(path, method, keys, inside) ==
  LET at == AsAPIPrefix(path)
  IN IF \/ at.prefix # "api" /\ ~inside
        \/ ~ApiKeyMatches(path, keys) \/ ~ApiKeyMatches(at.path, keys) THEN Answer("forbidden")
     ELSE IF at.prefix \in {"metric", "config", "status"} THEN Answer(at.prefix)
     ELSE IF at.prefix = "openapi" THEN MatchByMultiRoutes(at.path, keys)
     ELSE MatchByRoute(method, at, keys)

-----------------------------------------------------------------------------
(* What routing means, without the trie.                                    *)

\* Whether a route is for a method; whether its template stands for a path, a parameter of it
\* for any segment; whether a template is preferred to another: the first segment they differ
\* in is that of the path, and a parameter in the other.
Serves(r, method) == method = RouteConf[r].method \/ (method = "OPTIONS" /\ RouteConf[r].cors)

Fits(uri, path) == Len(uri) = Len(path) /\ \A i \in DOMAIN uri : uri[i] \in {path[i], Wild}

Hides(uri, other, path) ==
  \E i \in DOMAIN uri \cap DOMAIN other \cap DOMAIN path :
    /\ \A j \in 1..(i - 1) : uri[j] = other[j]
    /\ uri[i] = path[i] /\ other[i] = Wild /\ path[i] # Wild

Fitting(path, method) == {r \in Route : Serves(r, method) /\ Fits(Uri(r), path)}

\* Of the templates that stand for a path, those to which none is preferred. A request gets
\* there unless some template is preferred that turns out not to stand for the path.
Preferred(path, method) ==
  {r \in Fitting(path, method) : \A q \in Fitting(path, method) : ~Hides(Uri(q), Uri(r), path)}

Reachable(path, method) ==
  {r \in Fitting(path, method) : \A q \in Route : Serves(q, method) => ~Hides(Uri(q), Uri(r), path)}
=============================================================================
