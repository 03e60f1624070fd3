---- MODULE MCNotificationQueue ----
(* The queue with room for two, limits on both sides of zero and of the       *)
(* queue's length, callers that tolerate no drop and one drop, and one       *)
(* restart of the backend.                                                    *)
EXTENDS NotificationQueue

MCLimits == {-1, 0, 1, 2, 3}
MCMaxDropped == {0, 1}
====
