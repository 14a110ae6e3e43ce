------------------------------- MODULE Routes -------------------------------
(***************************************************************************)
(* The route table and the dispatcher (routing/dispatch.py).  A path is a  *)
(* list of segments; in a route's path a segment <<name>> is a parameter.  *)
(* A route of the IR is [kind, method, path, scope, content]; a channel is *)
(* [snake, actions, direction].  A route says which handler it binds, and  *)
(* the content that handler is told of.                                    *)
(***************************************************************************)
EXTENDS Naturals, Sequences

CONSTANT None

Name(n)  == [lit |-> n]
Param(n) == [param |-> n]

Kinds == {"LIST", "CREATE", "GET_ONE", "UPDATE", "DELETE", "TRANSITION", "APPEND"}

ContentRoute(r) ==
    [method |-> r.method, path |-> r.path, scope |-> r.scope, handler |-> r.kind, content |-> r.content]

(* Of the first n routes of the IR; a kind without a handler is skipped.   *)
ContentRoutes(ir) ==
    LET specs[n \in 0 .. Len(ir.routes)] ==
            IF n = 0 THEN <<>>
            ELSE IF ir.routes[n].kind \in Kinds THEN Append(specs[n - 1], ContentRoute(ir.routes[n]))
            ELSE specs[n - 1]
    IN  specs

ChannelRoute(channel, last, handler) ==
    [method |-> "POST", path |-> <<Name("_channels"), Name(channel.snake), Name(last)>>,
     scope |-> None, handler |-> handler, content |-> None]

(* send, then the actions, then the webhook; the direction is compared as  *)
(* it is written, and an IR read from JSON writes it in capitals.          *)
ChannelRoutes(channel) ==
    <<ChannelRoute(channel, "send", "channel_send")>>
    \o [i \in DOMAIN channel.actions |-> ChannelRoute(channel, channel.actions[i], "channel_invoke")]
    \o (IF channel.direction \in {"inbound", "bidirectional"}
        THEN <<ChannelRoute(channel, "webhook", "webhook")>> ELSE <<>>)

(* The content routes, then those of the first n channels.                 *)
WithChannels(ir) ==
    LET specs[n \in 0 .. Len(ir.channels)] ==
            IF n = 0 THEN ContentRoutes(ir)[Len(ir.routes)]
            ELSE specs[n - 1] \o ChannelRoutes(ir.channels[n])
    IN  specs

build_route_specs(ir) == WithChannels(ir)[Len(ir.channels)]

Matches(pattern, path) ==
    /\ Len(pattern) = Len(path)
    /\ \A i \in DOMAIN path : "param" \in DOMAIN pattern[i] \/ pattern[i].lit = path[i]

(* Fault: issue #6 (1), the dispatcher did not look at the scope.          *)
MayCallAnyone(scope, request) == TRUE

MayCall(scope, request) ==
    scope = None \/ (request.auth # None /\ scope \in request.auth)

Answer(status, route) == [status |-> status, route |-> route]

(* Fault: a method that does not match ends the search.                    *)
TryOnce(acc, route, request) ==
    IF acc.status # 0 \/ ~ Matches(route.path, request.path) THEN acc
    ELSE IF route.method # request.method   THEN [acc EXCEPT !.status = 405]
    ELSE IF ~ MayCall(route.scope, request) THEN [acc EXCEPT !.status = 403]
    ELSE [acc EXCEPT !.status = 200, !.route = route]

(* One turn of the loop; status 0 goes on.                                 *)
Try(acc, route, request) ==
    IF acc.status # 0 \/ ~ Matches(route.path, request.path) THEN acc
    ELSE IF route.method # request.method   THEN [acc EXCEPT !.mismatch = TRUE]
    ELSE IF ~ MayCall(route.scope, request) THEN [acc EXCEPT !.status = 403]
    ELSE [acc EXCEPT !.status = 200, !.route = route]

Untried == [status |-> 0, mismatch |-> FALSE, route |-> None]

(* What the loop knows after the first n routes.                           *)
Tried(routes, request) ==
    LET tried[n \in 0 .. Len(routes)] ==
            IF n = 0 THEN Untried ELSE Try(tried[n - 1], routes[n], request)
    IN  tried

dispatch_http_request(ir, request) ==
    LET specs == build_route_specs(ir)
        found == Tried(specs, request)[Len(specs)]
    IN  IF found.status # 0 THEN Answer(found.status, found.route)
        ELSE Answer(IF found.mismatch THEN 405 ELSE 404, None)

-----------------------------------------------------------------------------
Asked(ir, request) ==
    {i \in DOMAIN build_route_specs(ir) :
        /\ Matches(build_route_specs(ir)[i].path, request.path)
        /\ build_route_specs(ir)[i].method = request.method}

(* 404 before 405 before 403: nobody is told of a scope, nor refused for   *)
(* one, on a path or a method that no route has; and a request that some   *)
(* route asks for is never answered with either.                           *)
Precedence(ir, request) ==
    LET status == dispatch_http_request(ir, request).status
    IN  /\ status \in {404, 405} <=> Asked(ir, request) = {}
        /\ status = 404 => \A i \in DOMAIN build_route_specs(ir) :
                              ~ Matches(build_route_specs(ir)[i].path, request.path)

(* A handler runs for a caller that has the scope the IR demands of a      *)
(* route for just this content, kind and path; where two routes claim the  *)
(* request, the one that the IR lists first decides.                       *)
HandledAsDeclared(ir, request) ==
    LET answer == dispatch_http_request(ir, request) IN
    answer.status = 200 /\ answer.route.content # None =>
        \E i \in DOMAIN ir.routes :
            /\ ir.routes[i].kind = answer.route.handler
            /\ ir.routes[i].content = answer.route.content
            /\ ir.routes[i].method = request.method
            /\ Matches(ir.routes[i].path, request.path)
            /\ ir.routes[i].scope = None \/ (request.auth # None /\ ir.routes[i].scope \in request.auth)
            /\ \A j \in 1 .. i - 1 :
                  ~ (/\ ir.routes[j].kind \in Kinds
                     /\ ir.routes[j].method = request.method
                     /\ Matches(ir.routes[j].path, request.path))
=============================================================================
