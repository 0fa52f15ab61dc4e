------------------------------- MODULE Errors -------------------------------
(***************************************************************************)
(* The error codes of katla that setPriority() returns: an enumeration and *)
(* a category for each build.  A std::error_code is a value in a category; *)
(* it tests as an error when the value is not 0, and is compared with an   *)
(* std::errc through the condition its category gives it.                  *)
(***************************************************************************)
EXTENDS Integers, Sequences

(* The enumerations; the first enumerator has value 0. *)
PosixErrorCodes ==
    <<"InvalidDomain", "InvalidType", "Invalid", "OperationNotSupported",
      "UnixSocketPathTooLong", "PermissionDenied", "NotFound">>

Win32ErrorCodes == <<"OperationFailed">>

Enumerators == [posix |-> PosixErrorCodes, win32 |-> Win32ErrorCodes]

(* errno.h *)
Errno == [EPERM |-> 1, ESRCH |-> 3, EIO |-> 5, EACCES |-> 13, EINVAL |-> 22,
          ENOTSUP |-> 95]

MakeErrorCode(category, name) ==
    LET codes == Enumerators[category]
    IN  [category |-> category,
         value |-> (CHOOSE i \in DOMAIN codes : codes[i] = name) - 1]

(* std::error_code with no arguments *)
NoErrorCode == [category |-> "system", value |-> 0]

(* lastSystemError() *)
LastSystemError(errno) == [category |-> "generic", value |-> Errno[errno]]

(* operator bool of std::error_code *)
IsSet(code) == code.value # 0

(* The std::errc of each posix code, in the order of the enumeration. *)
PosixConditions ==
    <<"EINVAL", "EINVAL", "EINVAL", "ENOTSUP", "EINVAL", "EACCES", "EIO">>

(* default_error_condition() of the category; that of Windows has none. *)
DefaultErrorCondition(code) ==
    IF code.category = "posix" /\ code.value + 1 \in DOMAIN PosixConditions
    THEN LastSystemError(PosixConditions[code.value + 1])
    ELSE code
=============================================================================
