----------------------------- MODULE GeeRouter -----------------------------
(***************************************************************************)
(* The gee web framework (gee-web/7-panic/gee): route groups, the routing  *)
(* trie and the chain of middlewares that Context.Next walks.              *)
(*                                                                         *)
(* A path is the sequence of the items strings.Split leaves after its      *)
(* leading slash: "/" is <<"">>, "//" is <<"", "">>, "/v/w" is             *)
(* <<"v", "w">>, and concatenating paths concatenates the sequences.  A    *)
(* handler is the sequence of the calls its body makes on the context:     *)
(* "next", "fail", "write" (String, JSON, ...) and "panic".                *)
(***************************************************************************)
EXTENDS Integers, Sequences, SequencesExt

CONSTANTS
  Methods,      \* the request methods in use
  Colon, Star,  \* the items that begin with ':' and with '*'
  Begins,       \* pairs <<s, t>> of different items, s a string prefix of t
  Programs,     \* handler name -> the calls it makes
  Middlewares,  \* the handlers given to Use
  Pages,        \* the handlers given to Get and POST
  GroupPrefixes,     \* the prefixes given to Group
  Components,   \* the patterns given to Get and POST
  Paths,        \* the paths requested
  MaxSetup,     \* bound: calls of Group, Use, Get and POST
  MaxGroups     \* bound: groups, the engine's own included

VARIABLES
  groups,    \* Engine.groups: [prefix, middlewares]
  roots,     \* router.roots: method -> the root of its trie, or NoNode
  handlers,  \* router.handlers: set of <<method, pattern, handler>>
  setup,     \* calls made so far
  ctx        \* the Context of the request being served, or NoContext

geeVars == <<groups, roots, handlers, setup, ctx>>

NoPattern == << >>
NoNode == [part |-> "none", pattern |-> NoPattern, children |-> << >>]
NewNode(part) == [part |-> part, pattern |-> NoPattern, children |-> << >>]
isWild(node) == node.part \in Colon \cup Star

NoContext == [method |-> "none", path |-> << >>, params |-> {}, chain |-> << >>,
              index |-> -1, stack |-> << >>, sent |-> 0, StatusCode |-> 0,
              ran |-> << >>, fault |-> 0, escaped |-> FALSE]

(***************************************************************************)
(* Patterns and the trie.                                                  *)
(***************************************************************************)
\* The items that are not empty, up to the first that begins with '*'.
parsePattern(path) ==
  LET parts == SelectSeq(path, LAMBDA item : item # "")
      stars == {i \in DOMAIN parts : parts[i] \in Star}
  IN  IF stars = {} THEN parts
      ELSE SubSeq(parts, 1, CHOOSE i \in stars : \A j \in stars : i <= j)

matches(child, part) == child.part = part \/ isWild(child)

matchChild(node, part) == \E i \in DOMAIN node.children : matches(node.children[i], part)

matchChildren(node, part) == SelectSeq(node.children, LAMBDA c : matches(c, part))

\* insert looks for the child of the next part and adds one when there is none.
\* It does not go on into the child: only the root ever gets a pattern.
insert(node, pattern, parts) ==
  IF parts = << >> THEN [node EXCEPT !.pattern = pattern]
  ELSE IF matchChild(node, Head(parts)) THEN node
  ELSE [node EXCEPT !.children = Append(@, NewNode(Head(parts)))]

RECURSIVE search(_, _)
search(node, parts) ==
  IF parts = << >> \/ node.part \in Star
  THEN IF node.pattern = NoPattern THEN NoNode ELSE node
  ELSE LET children == matchChildren(node, Head(parts))
           results == [i \in DOMAIN children |-> search(children[i], Tail(parts))]
           found == {i \in DOMAIN results : results[i] # NoNode}
       IN  IF found = {} THEN NoNode
           ELSE results[CHOOSE i \in found : \A j \in found : i <= j]

\* The parameters of a matched pattern: every ':' part with the item it
\* stands for, and a '*' part with all the items that are left.
Params(pattern, searchParts) ==
  LET parts == parsePattern(pattern)
  IN  {<<parts[i], <<searchParts[i]>> >> :
          i \in {j \in DOMAIN parts : parts[j] \in Colon}}
        \cup {<<parts[i], SubSeq(searchParts, i, Len(searchParts))>> :
                i \in {j \in DOMAIN parts : parts[j] \in Star}}

getRoute(method, path) ==
  IF roots[method] = NoNode THEN NoNode ELSE search(roots[method], parsePattern(path))

(***************************************************************************)
(* Setting the engine up.                                                  *)
(***************************************************************************)
\* New: the engine is its own first group, with an empty prefix.
GeeInit ==
  /\ groups = <<[prefix |-> << >>, middlewares |-> << >>]>>
  /\ roots = [m \in Methods |-> NoNode]
  /\ handlers = {}
  /\ setup = 0
  /\ ctx = NoContext

CanSetUp == setup < MaxSetup /\ ctx = NoContext

Group(g, prefix) ==
  /\ CanSetUp
  /\ Len(groups) < MaxGroups
  /\ groups' = Append(groups, [prefix |-> groups[g].prefix \o prefix,
                               middlewares |-> << >>])
  /\ setup' = setup + 1
  /\ UNCHANGED <<roots, handlers, ctx>>

Use(g, middleware) ==
  /\ CanSetUp
  /\ groups' = [groups EXCEPT ![g].middlewares = Append(@, middleware)]
  /\ setup' = setup + 1
  /\ UNCHANGED <<roots, handlers, ctx>>

\* handlers[key] = handler replaces what the key held.
Filed(method, pattern, handler) ==
  {h \in handlers : <<h[1], h[2]>> # <<method, pattern>>}
    \cup {<<method, pattern, handler>>}

addRoute(g, method, comp, handler) ==
  LET pattern == groups[g].prefix \o comp
      root == IF roots[method] = NoNode THEN NewNode("") ELSE roots[method]
  IN  /\ CanSetUp
      /\ roots' = [roots EXCEPT ![method] = insert(root, pattern, parsePattern(pattern))]
      /\ handlers' = Filed(method, pattern, handler)
      /\ setup' = setup + 1
      /\ UNCHANGED <<groups, ctx>>

(***************************************************************************)
(* Serving a request.                                                      *)
(***************************************************************************)
\* strings.HasPrefix on whole paths: the last item of the prefix may be the
\* beginning of the item it meets.
HasPrefix(path, prefix) ==
  \/ prefix = << >>
  \/ /\ Len(prefix) <= Len(path)
     /\ Front(prefix) = SubSeq(path, 1, Len(prefix) - 1)
     /\ LET s == Last(prefix)
            t == path[Len(prefix)]
        IN  s = t \/ <<s, t>> \in Begins

RECURSIVE GroupMiddlewares(_, _)
GroupMiddlewares(gs, path) ==
  IF gs = << >> THEN << >>
  ELSE (IF HasPrefix(path, Head(gs).prefix) THEN Head(gs).middlewares ELSE << >>)
         \o GroupMiddlewares(Tail(gs), path)


\* The last handler of the chain: the one filed under the request's own
\* method and path, nil when a node matched and nothing is filed there.
Endpoint(method, path) ==
  LET filed == {h \in handlers : h[1] = method /\ h[2] = path}
  IN  IF getRoute(method, path) = NoNode THEN "notfound"
      ELSE IF filed = {} THEN "nil"
      ELSE (CHOOSE h \in filed : TRUE)[3]

Calls(handler) ==
  CASE handler = "notfound" -> <<"write404">>
    [] handler = "nil" -> <<"panic">>
    [] handler \in {"logger", "recovery"} -> <<"next">>
    [] OTHER -> Programs[handler]

\* A frame is one call of Context.Next ("loop") or of the handler at a
\* position of the chain, with the calls it has still to make.
Loop == [kind |-> "loop", at |-> 0, todo |-> << >>]
Running(at) == [kind |-> "handler", at |-> at, todo |-> Calls(ctx.chain[at])]

\* ServeHTTP, up to the call of Next at the end of handle.
ServeHTTP(method, path) ==
  /\ ctx = NoContext
  /\ LET node == getRoute(method, path)
     IN  ctx' = [NoContext EXCEPT
            !.method = method, !.path = path,
            !.params = IF node = NoNode THEN {} ELSE Params(node.pattern, parsePattern(path)),
            !.chain = Append(GroupMiddlewares(groups, path), Endpoint(method, path)),
            !.index = 1, !.stack = <<Loop>>]
  /\ UNCHANGED <<groups, roots, handlers, setup>>

\* Next's loop calls the handler at the index, or returns past the end.
\* (The index is the code's plus one: chain positions begin at 1.)
NextLoop ==
  /\ ctx.stack # << >>
  /\ Last(ctx.stack).kind = "loop"
  /\ ctx' = IF ctx.index <= Len(ctx.chain)
            THEN [ctx EXCEPT !.stack = Append(@, Running(ctx.index)),
                             !.ran = IF Len(@) > Len(ctx.chain) THEN @ ELSE Append(@, ctx.index)]
            ELSE [ctx EXCEPT !.stack = Front(@)]
  /\ UNCHANGED <<groups, roots, handlers, setup>>

\* a defect: the index is local to each call of Next.
ReturnedSame(c) == [c EXCEPT !.stack = Front(@)]

\* A handler returns to the loop that called it, which moves the index on.
Returned(c) == [c EXCEPT !.stack = Front(@), !.index = @ + 1]

HandlerReturns ==
  /\ ctx.stack # << >>
  /\ Last(ctx.stack).kind = "handler"
  /\ Last(ctx.stack).todo = << >>
  /\ ctx' = Returned(ctx)
  /\ UNCHANGED <<groups, roots, handlers, setup>>

\* Status: the first WriteHeader is what the client receives.
Status(c, code) ==
  [c EXCEPT !.StatusCode = code, !.sent = IF @ = 0 THEN code ELSE @]

\* a defect: the answer is written and the chain goes on.
FailGoesOn(c) == Status(c, 500)

\* Fail: no handler is left to run, and the answer is a 500.
Fail(c) == [Status(c, 500) EXCEPT !.index = Len(c.chain) + 1]

\* A panic unwinds to the innermost running Recovery, whose deferred function
\* calls Fail and returns; without one it leaves ServeHTTP.
Recovering(c) == {i \in DOMAIN c.stack : /\ c.stack[i].kind = "handler"
                                         /\ c.chain[c.stack[i].at] = "recovery"}

Panicked(c) ==
  LET rs == Recovering(c)
  IN  IF rs = {} THEN [c EXCEPT !.stack = << >>, !.escaped = TRUE]
      ELSE LET r == CHOOSE i \in rs : \A j \in rs : j <= i
           IN  [Fail(c) EXCEPT
                  !.stack = Append(SubSeq(@, 1, r - 1), [@[r] EXCEPT !.todo = << >>])]

HandlerCalls ==
  /\ ctx.stack # << >>
  /\ Last(ctx.stack).kind = "handler"
  /\ Last(ctx.stack).todo # << >>
  /\ LET frame == Last(ctx.stack)
         rest == [ctx EXCEPT !.stack = Append(Front(@), [frame EXCEPT !.todo = Tail(@)])]
     IN  ctx' = CASE Head(frame.todo) = "next" ->
                       [rest EXCEPT !.index = @ + 1, !.stack = Append(@, Loop)]
                  [] Head(frame.todo) = "write" -> Status(rest, 200)
                  [] Head(frame.todo) = "write404" -> Status(rest, 404)
                  [] Head(frame.todo) = "fail" -> [Fail(rest) EXCEPT !.fault = frame.at]
                  [] OTHER -> [Panicked(rest) EXCEPT !.fault = frame.at]
  /\ UNCHANGED <<groups, roots, handlers, setup>>

Answered == ctx # NoContext /\ ctx.stack = << >>

\* The server is ready for the next request.
Finish ==
  /\ Answered
  /\ ctx' = NoContext
  /\ UNCHANGED <<groups, roots, handlers, setup>>

Serve == NextLoop \/ HandlerReturns \/ HandlerCalls \/ Finish

GeeNext ==
  \/ \E g \in DOMAIN groups : \E p \in GroupPrefixes : Group(g, p)
  \/ \E g \in DOMAIN groups : \E w \in Middlewares : Use(g, w)
  \/ \E g \in DOMAIN groups : \E m \in Methods : \E p \in Components : \E h \in Pages :
        addRoute(g, m, p, h)
  \/ \E m \in Methods : \E p \in Paths : ServeHTTP(m, p)
  \/ Serve

GeeSpec == GeeInit /\ [][GeeNext]_geeVars

(***************************************************************************)
(* Properties.                                                             *)
(***************************************************************************)
\* The state has its type; no handler is entered more often than the chain is
\* long, so the nested calls of Next stay within the chain.
GeeTypeOK ==
  /\ \A i \in DOMAIN groups : groups[i].middlewares \in Seq(Middlewares)
  /\ \A h \in handlers : h[1] \in Methods /\ h[3] \in Pages
  /\ \A h, k \in handlers : <<h[1], h[2]>> = <<k[1], k[2]>> => h = k
  /\ Len(ctx.ran) <= Len(ctx.chain)
  /\ ctx.StatusCode \in {0, 200, 404, 500} /\ ctx.sent \in {0, 200, 404, 500}

\* Whatever mixture of middlewares calls Next, calls it twice or does not call
\* it, the handlers of a chain are entered in order, each once (Context.Next
\* shares one index), and all of them unless one failed or panicked.
ChainRunsInOrder ==
  /\ \A i \in DOMAIN ctx.ran : ctx.ran[i] = i
  /\ (Answered /\ ctx.fault = 0) => Len(ctx.ran) = Len(ctx.chain)

\* A handler that panics after Recovery was entered never takes the request
\* down: the client is answered and no later handler is entered; the same
\* holds of a handler that calls Fail.
FaultEndsChain ==
  ctx.fault # 0 =>
    /\ \A i \in DOMAIN ctx.ran : ctx.ran[i] <= ctx.fault
    /\ (\E i \in 1..(ctx.fault - 1) : ctx.chain[i] = "recovery") => ~ctx.escaped
    /\ ~ctx.escaped => ctx.sent # 0 /\ ctx.StatusCode # 0

\* The page a request runs was filed for exactly its method and its path
\* (handle looks it up by the request's path), whatever else the trie matched.
PageIsTheRequests ==
  (ctx # NoContext /\ Last(ctx.chain) \in Pages) =>
    /\ <<ctx.method, ctx.path, Last(ctx.chain)>> \in handlers
    /\ roots[ctx.method].pattern # NoPattern

\* A request was begun and is not answered yet.
Serving == ctx # NoContext

\* What the comment on insert says: the node of a pattern's last part holds
\* the pattern, so a request for a registered path without wildcards reaches
\* a page.
RegisteredIsFound ==
  (ctx # NoContext /\ (\E h \in handlers : h[1] = ctx.method /\ h[2] = ctx.path))
    => Last(ctx.chain) # "notfound"
=============================================================================
