------------------------------ MODULE GatewayProofs ------------------------------
(***************************************************************************)
(* Theorems about Gateway, for any number of clients, requests and venues. *)
(***************************************************************************)
EXTENDS Gateway, UserProofs

-------------------------------------------------------------------------------
\* user-service, seen alone

LEMMA UserSteps == [GatewayNext]_gatewayVars => [Next]_vars
  <1> SUFFICES ASSUME [GatewayNext]_gatewayVars PROVE [Next]_vars
    OBVIOUS
  <1>1. ASSUME NEW h \in Handlers, UserBegins(h) PROVE Next
    <2>1. Auth(h) \/ Me(h)
      BY <1>1 DEF UserBegins, Me, Unauthorized
    <2>2. QED
      BY <2>1 DEF Next
  <1>2. ASSUME NEW h \in Handlers, UserProceeds(h) \/ UserAnswers(h) PROVE Next
    BY <1>2 DEF UserProceeds, UserAnswers, Next
  <1>3. CASE UserRestarts
    BY <1>3 DEF UserRestarts, Next
  <1>4. ASSUME NEW h \in Handlers,
               AuthUnless(h) \/ ServiceAnswers(h) \/ UpstreamUnavailable(h) \/ Fetch(h) \/ Forget(h)
        PROVE  UNCHANGED vars
    BY <1>4 DEF AuthUnless, ServiceAnswers, UpstreamUnavailable, Fetch, FetchBooking,
                FetchVenue, FetchPayment, FetchFails, Forget
  <1>5. CASE GatewayRestarts \/ MoveBooking \/ UNCHANGED gatewayVars
    BY <1>5 DEF GatewayRestarts, MoveBooking, gatewayVars, vars
  <1>6. QED
    BY <1>1, <1>2, <1>3, <1>4, <1>5 DEF GatewayNext

\* Behind the gateway, user-service does nothing it would not do alone: what is
\* proved of it holds of the two together.
THEOREM GatewayImplementsUser == GatewaySpec => Spec
  <1>1. GatewayInit => Init
    BY DEF GatewayInit
  <1>2. QED
    BY <1>1, UserSteps, PTL DEF GatewaySpec, Spec

-------------------------------------------------------------------------------
\* Types

\* TypeOK of the gateway's own variables.
GateOK ==
    /\ gate \in [Handlers -> {"idle", "proxied"} \union Fetching \union GateAnswers]
    /\ request \in [Handlers -> Requests \union {None}]
    /\ \A h \in Handlers : gate[h] \in {"proxied"} \union Fetching => request[h] # None
    /\ parts \in [Handlers -> [booking : Venues \union {None},
                               venue : Venues \union {"error", None},
                               payment : {"body", "error", None}]]
    /\ bookedAt \in Venues

\* A fetch shows what it knows so far.
PartsOK ==
    \A h \in Handlers :
        /\ gate[h] \in {"venue", "payment", "summary"} => parts[h].booking \in Venues
        /\ gate[h] \in {"payment", "summary"} => parts[h].venue \in {parts[h].booking, "error"}
        /\ gate[h] = "summary" => parts[h].payment \in {"body", "error"}

GateInv == GateOK /\ PartsOK /\ UnvouchedReadVenues

LEMMA RequestsNamed == None \notin Requests
  BY GatewayAssumption

LEMMA GateInit == GatewayInit => GateInv
  BY DEF GatewayInit, GateInv, GateOK, PartsOK, UnvouchedReadVenues, Nobody, NoParts, Fetching

LEMMA AnswerKeeps ==
    ASSUME GateInv, NEW h \in Handlers, NEW from, NEW answer \in GateAnswers \ {"summary"},
           Answer(h, from, answer), UNCHANGED <<parts, bookedAt>>
    PROVE  GateInv'
  BY DEF Answer, GateStep, GateInv, GateOK, PartsOK, UnvouchedReadVenues, GateAnswers, Fetching

LEMMA AuthKeeps == ASSUME GateInv, NEW h \in Handlers, AuthUnless(h) PROVE GateInv'
  <1>1. PICK r \in Requests :
            /\ IF isPublicRequest(r) \/ Decoded(r.token)
               THEN /\ \E to \in IF Summary(r) THEN {"booking", "badrequest"} ELSE {"proxied"} :
                           GateStep(h, "idle", to)
                    /\ request' = [request EXCEPT ![h] = r]
               ELSE Answer(h, "idle", "unauthorized")
            /\ UNCHANGED <<parts, bookedAt>>
    BY DEF AuthUnless
  <1>2. CASE ~(isPublicRequest(r) \/ Decoded(r.token))
    BY <1>1, <1>2, AnswerKeeps DEF GateAnswers
  <1>3. CASE isPublicRequest(r) \/ Decoded(r.token)
    <2>1. PICK to \in {"booking", "badrequest", "proxied"} : GateStep(h, "idle", to)
      BY <1>1, <1>3
    <2>2. request' = [request EXCEPT ![h] = r] /\ UNCHANGED <<parts, bookedAt>>
      BY <1>1, <1>3
    <2>3. GateOK' /\ PartsOK'
      BY <2>1, <2>2, RequestsNamed DEF GateInv, GateOK, PartsOK, GateStep, Fetching, GateAnswers
    <2>4. ~Decoded(r.token) =>
              \/ r.prefix = "auth"
              \/ r.get /\ Upstream(r) = "venue"
              \/ r.get /\ r.suffix = "availability"
      <3>1. r \in Request
        BY GatewayAssumption
      <3>2. QED
        BY <1>3, <3>1 DEF isPublicRequest, Upstream, Request, Suffixes
    <2>5. UnvouchedReadVenues'
      <3>1. \A k \in Handlers : k # h => gate'[k] = gate[k] /\ request'[k] = request[k]
        BY <2>1, <2>2 DEF GateInv, GateOK, GateStep
      <3>2. request'[h] = r
        BY <2>2 DEF GateInv, GateOK
      <3>3. QED
        BY <2>4, <3>1, <3>2 DEF GateInv, UnvouchedReadVenues
    <2>6. QED
      BY <2>3, <2>5 DEF GateInv
  <1>4. QED
    BY <1>2, <1>3

\* The body of a part: what is fetched of the booking, its venue, its payment.
LEMMA PartKeeps ==
    ASSUME GateInv, NEW h \in Handlers, Fetch(h) PROVE GateInv'
  <1>1. \/ \E answer \in {"answered", "badgateway"} :
               Answer(h, "booking", answer) /\ UNCHANGED parts
        \/ /\ GateStep(h, "booking", "venue") /\ UNCHANGED request
           /\ parts' = [parts EXCEPT ![h].booking = bookedAt]
        \/ /\ GateStep(h, "venue", "payment") /\ UNCHANGED request
           /\ \E body \in {parts[h].booking, "error"} : parts' = [parts EXCEPT ![h].venue = body]
        \/ /\ Answer(h, "payment", "summary")
           /\ \E body \in {"body", "error"} : parts' = [parts EXCEPT ![h].payment = body]
    BY DEF Fetch, FetchBooking, FetchVenue, FetchPayment, FetchFails
  <1>2. UNCHANGED bookedAt
    BY DEF Fetch, FetchBooking, FetchVenue, FetchPayment, FetchFails
  <1>3. ASSUME NEW answer \in {"answered", "badgateway"}, Answer(h, "booking", answer),
               UNCHANGED parts
        PROVE  GateInv'
    BY <1>2, <1>3, AnswerKeeps DEF GateAnswers
  <1>4. CASE /\ GateStep(h, "booking", "venue") /\ UNCHANGED request
             /\ parts' = [parts EXCEPT ![h].booking = bookedAt]
    BY <1>2, <1>4 DEF GateStep, GateInv, GateOK, PartsOK, UnvouchedReadVenues, Fetching, GateAnswers
  <1>5. CASE /\ GateStep(h, "venue", "payment") /\ UNCHANGED request
             /\ \E body \in {parts[h].booking, "error"} : parts' = [parts EXCEPT ![h].venue = body]
    BY <1>2, <1>5 DEF GateStep, GateInv, GateOK, PartsOK, UnvouchedReadVenues, Fetching, GateAnswers
  <1>6. CASE /\ Answer(h, "payment", "summary")
             /\ \E body \in {"body", "error"} : parts' = [parts EXCEPT ![h].payment = body]
    BY <1>2, <1>6 DEF Answer, GateStep, GateInv, GateOK, PartsOK, UnvouchedReadVenues, Fetching,
                      GateAnswers
  <1>7. QED
    BY <1>1, <1>3, <1>4, <1>5, <1>6

LEMMA GateStepKeeps == ASSUME GateInv, [GatewayNext]_gatewayVars PROVE GateInv'
  <1>1. ASSUME NEW h \in Handlers, ServiceAnswers(h) \/ UpstreamUnavailable(h) PROVE GateInv'
    BY <1>1, AnswerKeeps DEF ServiceAnswers, UpstreamUnavailable, GateAnswers
  <1>2. ASSUME NEW h \in Handlers, UserBegins(h) \/ UserProceeds(h) PROVE GateInv'
    BY <1>2 DEF UserBegins, UserProceeds, inGateway, GateInv, GateOK, PartsOK, UnvouchedReadVenues
  <1>3. ASSUME NEW h \in Handlers, UserAnswers(h) PROVE GateInv'
    <2>1. CASE Answer(h, "proxied", "answered")
      BY <1>3, <2>1, AnswerKeeps DEF UserAnswers, GateAnswers
    <2>2. CASE UNCHANGED <<gate, request>>
      BY <1>3, <2>2 DEF UserAnswers, GateInv, GateOK, PartsOK, UnvouchedReadVenues
    <2>3. QED
      BY <1>3, <2>1, <2>2 DEF UserAnswers
  <1>4. CASE UserRestarts
    BY <1>4 DEF UserRestarts, To, GateInv, GateOK, PartsOK, UnvouchedReadVenues, GateAnswers, Fetching
  <1>5. ASSUME NEW h \in Handlers, Forget(h) PROVE GateInv'
    BY <1>5 DEF Forget, NoParts, GateInv, GateOK, PartsOK, UnvouchedReadVenues, GateAnswers, Fetching
  <1>6. CASE GatewayRestarts
    BY <1>6 DEF GatewayRestarts, Nobody, NoParts, GateInv, GateOK, PartsOK, UnvouchedReadVenues,
                Fetching
  <1>7. CASE MoveBooking \/ UNCHANGED gatewayVars
    BY <1>7 DEF MoveBooking, gatewayVars, GateInv, GateOK, PartsOK, UnvouchedReadVenues
  <1>8. QED
    BY <1>1, <1>2, <1>3, <1>4, <1>5, <1>6, <1>7, AuthKeeps, PartKeeps DEF GatewayNext

LEMMA GateHolds == GatewaySpec => []GateInv
  BY GateInit, GateStepKeeps, PTL DEF GatewaySpec

\* What is being worked on has its request.
THEOREM GatewayTypeCorrect == GatewaySpec => []GatewayTypeOK
  <1>1. TypeOK /\ GateInv => GatewayTypeOK
    BY DEF GatewayTypeOK, GateInv, GateOK
  <1>2. QED
    BY <1>1, GateHolds, GatewayImplementsUser, UserTypeCorrect, PTL

\* What is public for the middleware is passed on to where it may be read.
THEOREM PublicPathsAgree == GatewaySpec => []UnvouchedReadVenues
  <1>1. GateInv => UnvouchedReadVenues
    BY DEF GateInv
  <1>2. QED
    BY <1>1, GateHolds, PTL

\* A summary shows one booking and its venue.
THEOREM SummariesAreWhole == GatewaySpec => []SummaryWhole
  <1>1. GateInv => SummaryWhole
    BY DEF GateInv, PartsOK, SummaryWhole
  <1>2. QED
    BY <1>1, GateHolds, PTL

-------------------------------------------------------------------------------
\* What is proved of user-service alone holds behind the gateway

\* However requests reach it, no two users share an email, a token is a stored
\* user's, an owner of whom no handler is to save an older row stays one, and
\* one of whom none is to sign an older row either is issued only tokens that
\* say so.
THEOREM UserPromisesHoldHere ==
    GatewaySpec => []OneUserPerEmail /\ []TokensOfUsers /\ GrantSettles /\ TokensSettle
  BY GatewayImplementsUser, EmailsAreUnique, TokensHaveUsers, GrantsSettle,
     TokensSettleForOwners, PTL
================================================================================
