--------------------------- MODULE MockController ---------------------------
(***************************************************************************)
(* mock-controller/main.go: how a controller answers the two requests.  A  *)
(* controller is [secret, zone, version].  Zones are told apart without    *)
(* their trailing dot.                                                     *)
(***************************************************************************)
EXTENDS ElchiClient

ErrorPage(status) == Response(status, "garbled", NoZone, NoHash, FALSE)
NotModified == Response(304, "broken", NoZone, NoHash, FALSE)
Full(controller) == Response(200, "payload", controller.zone, controller.version, FALSE)

Unauthorized(controller, request) == request.secret # controller.secret

MissingParameter(request) ==
    request.zone = NoZone \/ (request.path = "changes" /\ request.since = NoHash)

UnknownZone(controller, request) == request.zone # controller.zone

UpToDate(controller, request) ==
    request.path = "changes" /\ request.since = controller.version

\* handleSnapshot and handleChanges, whose checks come in the same order.
Respond(controller, request) ==
    IF Unauthorized(controller, request) THEN ErrorPage(401)
    ELSE IF MissingParameter(request) THEN ErrorPage(400)
    ELSE IF UnknownZone(controller, request) THEN ErrorPage(404)
    ELSE IF UpToDate(controller, request) THEN NotModified
    ELSE Full(controller)
=============================================================================
