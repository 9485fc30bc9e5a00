----------------------- MODULE MCNotificationDelivery -----------------------
(* TLC instances of notification delivery. *)
EXTENDS NotificationDelivery
=============================================================================
