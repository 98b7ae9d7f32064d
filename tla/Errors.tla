------------------------------- MODULE Errors -------------------------------
(***************************************************************************)
(* What a client sees of an exception: GlobalExceptionFilter, which is     *)
(* registered for every route, maps whatever a handler, guard, pipe or     *)
(* driver throws to a status and a code. Messages are left out.            *)
(***************************************************************************)
EXTENDS Integers

\* The exceptions the account and session code throws.
App(status, code)  == [kind |-> "AppException", status |-> status, code |-> code]
Http(status)       == [kind |-> "HttpException", status |-> status, code |-> ""]
MongoServer(code)  == [kind |-> "MongoServerError", status |-> 0, code |-> code]
OtherError         == [kind |-> "Error", status |-> 0, code |-> ""]

Unauthorized == Http(401)
Forbidden    == Http(403)
NotFound     == Http(404)
DuplicateKey == MongoServer("11000")
EmailExists  == App(409, "EMAIL_ALREADY_EXISTS")

\* GlobalExceptionFilter.catch. An HttpException keeps the code the filter
\* starts with.
caught(e) ==
  CASE e.kind = "AppException" -> [status |-> e.status, code |-> e.code]
    [] e.kind = "MongoServerError" ->
         IF e.code = "11000"
           THEN [status |-> 409, code |-> "DATABASE_DUPLICATE_KEY"]
           ELSE [status |-> 400, code |-> "DATABASE_ERROR"]
    [] e.kind = "HttpException" ->
         [status |-> e.status, code |-> "INTERNAL_SERVER_ERROR"]
    [] OTHER -> [status |-> 500, code |-> "INTERNAL_SERVER_ERROR"]

\* What a client can get, 0 standing for no answer yet.
Response ==
  [status : {0, 200, 201, 400, 401, 403, 404, 409, 500},
   code   : {"", "EMAIL_ALREADY_EXISTS", "INVALID_CREDENTIALS",
             "DATABASE_DUPLICATE_KEY", "DATABASE_ERROR",
             "INTERNAL_SERVER_ERROR"}]

success(status) == [status |-> status, code |-> ""]
=============================================================================
