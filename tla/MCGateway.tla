------------------------------- MODULE MCGateway -------------------------------
(* An instance of Gateway for TLC: origins, deployments, configurations and *)
(* requests.                                                                *)
EXTENDS Gateway

CONSTANTS localhost, listed, foreign

LocalOrigins == {localhost}

\* Two stricter deployments, in the second of which the WebSocket list is
\* left empty.
Strict == [origins |-> <<listed>>, wsOrigins |-> <<listed>>, auth |-> TRUE,
           skipPaths |-> {"/health"}]
Uneven == [Strict EXCEPT !.origins = <<listed, Wildcard>>, !.wsOrigins = <<>>]
Deployments == {DefaultRouterConfig, Strict, Uneven}

\* config.yaml of the repository, with the target for a host of its own; the
\* same without a target; and no file.
FullFile ==
  [k \in Key |-> IF k = "grpc.target" THEN "elsewhere" ELSE "some"]
NoTarget == [k \in Key \ {"grpc.target"} |-> "some"]
Files == {NoFile, FullFile, NoTarget}

NoVariable == [k \in {} |-> Zero]
Environments ==
  {NoVariable, [k \in {"grpc.target"} |-> "backend"],
   [k \in {"server.port"} |-> "eighty"]}

\* Whether the body binds matters to one route, the upgrade to another.
Requests ==
  {r \in [method : {"GET", "POST", "OPTIONS"},
          path : {"/health", "/api/v1/hello", "/ws/chat"},
          origin : {NoOrigin, localhost, listed, foreign},
          header : {"none", "malformed", "bearer"},
          body : {"bad", "good", "open"}, upgrade : BOOLEAN] :
     /\ r.body # "bad" => r.path = "/api/v1/hello"
     /\ r.upgrade => r.path = "/ws/chat"}
=============================================================================
