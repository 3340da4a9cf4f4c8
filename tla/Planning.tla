------------------------------ MODULE Planning ------------------------------
(***************************************************************************)
(* The planning model of scripts/persist_bench.py, as its four arms build  *)
(* it, and the forecasts that arrive cycle by cycle.  Two arms build it    *)
(* once over parameters and install every forecast by an update; the other *)
(* two rebuild it from the forecast.  The forecasts are stand-ins that     *)
(* are told apart; the code draws them from a generator seeded by the      *)
(* cycle, the same for every arm.                                          *)
(***************************************************************************)
EXTENDS Builders

CONSTANTS Horizon,    \* P_PERIODS
          Holding,    \* HOLDING
          Capacity,   \* CAPACITY
          Forecasts   \* what forecast(SEED, k) gives for the cycles k = 0, 1, ...:
                      \* [demand, margin], each a function of product and period

ASSUME PlanningAssumption ==
    /\ Horizon \in Nat \ {0}
    /\ \A k \in DOMAIN Forecasts : \A pt \in DOMAIN Forecasts[k].demand :
          Forecasts[k].demand[pt] >= 0   \* np.maximum(..., 0.0)

PlanningArms == {"roml_direct", "roml_template", "pyomo_rebuild", "pulp_rebuild"}

\* "rebuild_required": False
Retaining == {"roml_direct", "roml_template"}

PlanColumns(p) == Block("production", p, Horizon, Capacity) \o Block("sales", p, Horizon, Unlimited)
                      \o Block("inventory", p, Horizon + 1, Unlimited)

\* the handle of a column
On(p, family, i, t) == Var(Handle(PlanColumns(p), <<family, i, t>>))

EmptyStart(p, i) == EqRow(On(p, "inventory", i, 0), 0)

\* inventory[t + 1] == inventory[t] + production[t] - sales[t]
StockRow(p, i, t) ==
    EqRow(Minus(On(p, "inventory", i, t + 1),
                Minus(On(p, "inventory", i, t) \o On(p, "production", i, t), On(p, "sales", i, t))), 0)

\* the parameters: demand[i, t], then margin[i, t]
DemandParam(p, i, t) == i * Horizon + t + 1
MarginParam(p, i, t) == p * Horizon + DemandParam(p, i, t)

\* Fault: a warm cycle that brings the new demand and leaves the margin.
UpdatedDemandOnly(p, k, params) ==
    [n \in DOMAIN params |-> IF n > p * Horizon THEN params[n]
                             ELSE Grid(p, Horizon, LAMBDA i, t : Forecasts[k].demand[<<i, t>>])[n]]

\* m.update(demand=..., margin=...), directly or through a bind of the same shapes
Updated(p, k, params) == Grid(p, Horizon, LAMBDA i, t : Forecasts[k].demand[<<i, t>>])
                             \o Grid(p, Horizon, LAMBDA i, t : Forecasts[k].margin[<<i, t>>])

\* build: array algebra over parameters that are zero at first
PlanBuild(p) ==
    Model(PlanColumns(p),
          Grid(p, Horizon, LAMBDA i, t : LeParamRow(On(p, "sales", i, t), DemandParam(p, i, t)))
              \o For(p, LAMBDA i : EmptyStart(p, i))
              \o Grid(p, Horizon, LAMBDA i, t : StockRow(p, i, t)),
          GridEach(p, Horizon, 2, LAMBDA i, t :
              ByParam(MarginParam(p, i, t), On(p, "sales", i, t))
                  \o Times(-Holding, On(p, "inventory", i, t))),
          "max", For(2 * p * Horizon, LAMBDA n : 0))

\* the objective of the rebuilt models
PlanEarned(p, k) ==
    GridEach(p, Horizon, 2, LAMBDA i, t :
        Times(Forecasts[k].margin[<<i, t>>], On(p, "sales", i, t))
            \o Times(-Holding, On(p, "inventory", i, t)))

LimitRow(p, k, i, t) == LeRow(On(p, "sales", i, t), Forecasts[k].demand[<<i, t>>])

\* rebuild in pyomo_rebuild: all limits, all first stocks, all balances
PyomoPlan(p, k) ==
    Model(PlanColumns(p),
          Grid(p, Horizon, LAMBDA i, t : LimitRow(p, k, i, t)) \o For(p, LAMBDA i : EmptyStart(p, i))
              \o Grid(p, Horizon, LAMBDA i, t : StockRow(p, i, t)),
          PlanEarned(p, k), "max", Numeric)

\* rebuild in pulp_rebuild: per product its first stock, then period by period
PulpPlan(p, k) ==
    Model(PlanColumns(p),
          Each(p, 1 + 2 * Horizon, LAMBDA i : <<EmptyStart(p, i)>>
              \o Each(Horizon, 2, LAMBDA t : <<LimitRow(p, k, i, t), StockRow(p, i, t)>>)),
          PlanEarned(p, k), "max", Numeric)

PlanOf(a, p, k) == CASE a \in Retaining     -> PlanBuild(p)
                     [] a = "pyomo_rebuild" -> PyomoPlan(p, k)
                     [] a = "pulp_rebuild"  -> PulpPlan(p, k)
=============================================================================
