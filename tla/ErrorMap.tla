------------------------------- MODULE ErrorMap -------------------------------
(***************************************************************************)
(* The error codes of hacpp and map_err (lib/include/hacpp/error.h), which *)
(* turns an error of async_mqtt, Asio or the system into one of them.  A   *)
(* boost::system::error_code is a record of its category and its value.    *)
(***************************************************************************)

ErrorCode ==
  {"Success", "NotAuthorized", "HostNotFound", "ConnectionRefused",
   "PacketNotAllowedToSend", "NotConnected", "InvalidConfig", "Disconnected",
   "SessionReset", "InternalError", "InvalidPacket", "UnknownError"}

(* error_code::operator bool.                                              *)
Failed(ec) == ec.value # "success"

map_connect_error(v) ==
  IF v = "not_authorized" THEN "NotAuthorized" ELSE "UnknownError"

map_netdb_error(v) ==
  IF v \in {"host_not_found", "host_not_found_try_again"}
  THEN "HostNotFound" ELSE "UnknownError"

(* MUTANT of map_misc_error: a connection that ended is a new session.     *)
map_misc_error_reset(v) ==
  IF v = "eof" THEN "SessionReset" ELSE "UnknownError"

map_misc_error(v) ==
  IF v = "eof" THEN "Disconnected" ELSE "UnknownError"

map_system_error(v) ==
  CASE v = "connection_refused" -> "ConnectionRefused"
    [] v = "not_connected"      -> "NotConnected"
    [] OTHER                    -> "UnknownError"

map_mqtt_error(v) ==
  IF v = "packet_not_allowed_to_send" THEN "PacketNotAllowedToSend"
                                      ELSE "UnknownError"

map_err(ec) ==
  IF ~Failed(ec) THEN "Success"
  ELSE CASE ec.category = "connect_reason_code" -> map_connect_error(ec.value)
         [] ec.category = "netdb"               -> map_netdb_error(ec.value)
         [] ec.category = "misc"                -> map_misc_error(ec.value)
         [] ec.category = "system"              -> map_system_error(ec.value)
         [] ec.category = "mqtt_error"          -> map_mqtt_error(ec.value)
         [] OTHER                               -> "UnknownError"

(* What map_err makes of errors.                                           *)
MappedCodes ==
  {"NotAuthorized", "HostNotFound", "ConnectionRefused",
   "PacketNotAllowedToSend", "NotConnected", "Disconnected", "UnknownError"}
=============================================================================
