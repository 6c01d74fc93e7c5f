------------------------------- MODULE Errors -------------------------------
(***************************************************************************)
(* The error model that services and gateway share (core/errors): an       *)
(* AppError has a code; a service turns it into a gRPC status, the gateway *)
(* turns the status into an AppError again and that into an HTTP status.   *)
(* Each process has its own two maps for that; a project may add codes to  *)
(* them and change those of the framework.                                 *)
(***************************************************************************)

CONSTANT OwnCodes  \* codes that the framework does not know

\* The maps that a process starts with.
httpMap ==
    [OK |-> 200, INVALID_ARGUMENT |-> 400, UNAUTHENTICATED |-> 401, PERMISSION_DENIED |-> 403,
     NOT_FOUND |-> 404, CONFLICT |-> 409, RATE_LIMITED |-> 429, UNAVAILABLE |-> 503,
     DEADLINE_EXCEEDED |-> 504, FAILED_PRECONDITION |-> 412, INTERNAL |-> 500]

grpcMap ==
    [OK |-> "OK", INVALID_ARGUMENT |-> "InvalidArgument", UNAUTHENTICATED |-> "Unauthenticated",
     PERMISSION_DENIED |-> "PermissionDenied", NOT_FOUND |-> "NotFound",
     CONFLICT |-> "AlreadyExists", RATE_LIMITED |-> "ResourceExhausted",
     UNAVAILABLE |-> "Unavailable", DEADLINE_EXCEEDED |-> "DeadlineExceeded",
     FAILED_PRECONDITION |-> "FailedPrecondition", INTERNAL |-> "Internal"]

\* The maps after code has got another value.
RegisterHTTPStatus(http, code, status) ==
    [c \in DOMAIN http \cup {code} |-> IF c = code THEN status ELSE http[c]]
RegisterGRPCCode(grpc, code, grpcCode) ==
    [c \in DOMAIN grpc \cup {code} |-> IF c = code THEN grpcCode ELSE grpc[c]]

\* Codes without an entry are internal errors.
HTTPStatus(http, code) == IF code \in DOMAIN http THEN http[code] ELSE 500
GRPCCode(grpc, code)   == IF code \in DOMAIN grpc THEN grpc[code] ELSE "Internal"

\* An error in Go: an AppError with its code, a gRPC status with its, or any other,
\* to which an AppError belongs that a caller has wrapped.
Errors == [type : {"app", "wrapped"}, code : DOMAIN grpcMap \cup OwnCodes]
New(code) == [type |-> "app", code |-> code]

ToGRPCError(grpc, err) ==
    [type |-> "status", code |-> IF err.type = "app" THEN GRPCCode(grpc, err.code) ELSE "Internal"]

\* The cases of the switch.
fromGRPC ==
    [InvalidArgument |-> "INVALID_ARGUMENT", Unauthenticated |-> "UNAUTHENTICATED",
     PermissionDenied |-> "PERMISSION_DENIED", NotFound |-> "NOT_FOUND",
     AlreadyExists |-> "CONFLICT", ResourceExhausted |-> "RATE_LIMITED",
     Unavailable |-> "UNAVAILABLE", DeadlineExceeded |-> "DEADLINE_EXCEEDED",
     FailedPrecondition |-> "FAILED_PRECONDITION"]

\* What the caller of a service gets if its handler returns err.
ErrorInterceptor(grpc, err) == ToGRPCError(grpc, err)

\* Fault: the switch has no case for AlreadyExists.
FromGRPCErrorNoConflict(err) ==
    New(IF err.type = "status" /\ err.code \in DOMAIN fromGRPC \ {"AlreadyExists"}
        THEN fromGRPC[err.code] ELSE "INTERNAL")

FromGRPCError(err) ==
    New(IF err.type = "status" /\ err.code \in DOMAIN fromGRPC THEN fromGRPC[err.code] ELSE "INTERNAL")

\* The AppError behind the gateway's failure envelope.
failure(err) == IF err.type = "app" THEN err ELSE FromGRPCError(err)
=============================================================================
