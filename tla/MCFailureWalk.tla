---------------------------- MODULE MCFailureWalk ---------------------------
(* Links as the code builds them: wire errors that classify what they wrap,
   status errors, a panic, a custom error with a status only. *)
EXTENDS FailureWalk

MCLinks ==
  {Plain, Canceled, Deadline, Sentinel("metric"),
   Gaugo("", ""), Gaugo("metric_parse", "metric_parse"),
   [Gaugo("provider_request", "provider_http_request") EXCEPT
      !.retryable = TRUE],
   [Gaugo("provider_request", "provider_http_request") EXCEPT
      !.label = "openai"],
   [Gaugo("provider_rate_limit", "provider_http_status") EXCEPT
      !.status = 429, !.retryable = TRUE, !.label = "openai"],
   [Gaugo("unknown", "provider_http_status") EXCEPT !.status = 304],
   [Gaugo("", "") EXCEPT !.status = 401],
   [Gaugo("panic", "panic") EXCEPT !.type = "foreign"],
   [Silent EXCEPT !.type = "foreign", !.status = 503, !.retryable = TRUE,
                  !.label = "custom"]}

MCCodes  == Code \cup {link.code : link \in MCLinks}
MCLabels == {link.label : link \in MCLinks}
=============================================================================
